---- MODULE Spec2Model ----
(***************************************************************************)
(* A model of the go-nsq publisher (Writer) and of the connection (Conn)   *)
(* it drives.  Every goroutine of the program is a process of the model:   *)
(* the callers of Publish/PublishAsync, the callers of Stop, the Writer's  *)
(* router, the goroutine Writer.close starts, and, per connection, the     *)
(* read loop, the write loop, cleanup and waitForCleanup.  A send on an    *)
(* unbuffered channel is one step taken by the sender and the receiver     *)
(* together.  The broker is the environment: it answers the commands it    *)
(* received in order, sends heartbeats, or lets the read fail.             *)
(***************************************************************************)
EXTENDS Integers, Sequences, FiniteSets, TLC

\* ------------------------------------------------------------------ bounds
NumCallers == 2
NumSync == 1
MaxCalls == 1
MaxConns == 2
NumStoppers == 2

Callers == 1..NumCallers
Stoppers == 1..NumStoppers
ConnIds == 1..MaxConns
TxIds == 1..(NumCallers * MaxCalls)

\* the n-th call of caller c makes transaction TxId(c, n)
TxId(c, n) == (c - 1) * MaxCalls + n
Owner(t) == ((t - 1) \div MaxCalls) + 1

\* callers 1..NumSync call Publish (sendCommand, which makes the doneChan and
\* receives from it once); the others call PublishAsync with a doneChan whose
\* reader is always ready
Sync(c) == c <= NumSync

VARIABLES
    state,              \* Writer.state
    stopFlag,           \* Writer.stopFlag
    exitChan,           \* TRUE when Writer.exitChan is closed
    wconn,              \* Writer.conn: 0 is nil, else a connection
    wg,                 \* Writer.wg
    concurrentWriters,  \* Writer.concurrentWriters
    transactions,       \* Writer.transactions
    closers,            \* goroutines of Writer.close: [waiting, released]
    cpc,                \* each caller's position in sendCommand
    ccalls,             \* calls each caller has started
    cconn,              \* the local conn of a caller inside connect
    cret,               \* what the caller's last sendCommandAsync returned
    cwhen,              \* the caller's call and Stop: after, the call began
                        \* when a Stop that ran the shutdown had returned;
                        \* held, a Stop was called while the Publish call
                        \* was blocked
    tx,                 \* the WriterTransaction records
    rpc,                \* each router's position (one router per connect)
    conn,               \* the Conn records
    nconns,             \* connections made so far
    spc,                \* each Stop caller's position
    fault               \* a run-time panic, once raised

vars == <<state, stopFlag, exitChan, wconn, wg, concurrentWriters, transactions,
          closers, cpc, ccalls, cconn, cret, cwhen, tx, rpc, conn,
          nconns, spc, fault>>

writerVars == <<state, stopFlag, exitChan, wconn, wg, concurrentWriters,
                transactions, closers>>
callerVars == <<cpc, ccalls, cconn, cret, cwhen>>

\* ------------------------------------------------------------------ values
StateInit == "Init"
StateConnected == "Connected"
StateDisconnected == "Disconnected"

FrameTypeResponse == "response"
FrameTypeError == "error"
NoFrame == "none"

ErrNotConnected == "not connected"
ErrStopped == "stopped"

\* a Conn; wire holds the commands the broker received and has not answered,
\* sent the commands SendCommand was called with, frames counts the response
\* and error frames handed to ResponseCB or ErrorCB
NoConn == [sock |-> "none", rl |-> "none", data |-> 0, wire |-> <<>>,
           sent |-> <<>>, frames |-> 0,
           readLoopRunning |-> 0, exitChan |-> FALSE, drainReady |-> FALSE,
           wg |-> 0, stopper |-> FALSE, wl |-> "none", cl |-> "none",
           wfc |-> "none", closeCB |-> 0]

\* Conn.Connect succeeded: socket open, read loop and write loop started
NewConn == [NoConn EXCEPT !.sock = "open", !.rl = "read", !.wl = "run",
                          !.wg = 2, !.readLoopRunning = 1]

\* a WriterTransaction as sendCommandAsync makes it, and what became of it:
\* handed to a router, how often popTransaction and transactionCleanup
\* delivered it on its doneChan, and the frame popTransaction gave it (the
\* frame-th response or error frame of connection fconn)
NoTx == [handed |-> FALSE, FrameType |-> NoFrame, Data |-> 0, Error |-> "nil",
         popped |-> 0, cleaned |-> 0, fconn |-> 0, frame |-> 0]

Init ==
    /\ state = StateInit
    /\ stopFlag = 0
    /\ exitChan = FALSE
    /\ wconn = 0
    /\ wg = 0
    /\ concurrentWriters = 0
    /\ transactions = <<>>
    /\ closers = [waiting |-> 0, released |-> 0]
    /\ cpc = [c \in Callers |-> "idle"]
    /\ ccalls = [c \in Callers |-> 0]
    /\ cconn = [c \in Callers |-> 0]
    /\ cret = [c \in Callers |-> [FrameType |-> NoFrame, Data |-> 0, Error |-> "pending"]]
    /\ cwhen = [c \in Callers |-> [after |-> FALSE, held |-> FALSE]]
    /\ tx = [t \in TxIds |-> NoTx]
    /\ rpc = [r \in ConnIds |-> "none"]
    /\ conn = [i \in ConnIds |-> NoConn]
    /\ nconns = 0
    /\ spc = [s \in Stoppers |-> "idle"]
    /\ fault = "none"

Running == fault = "none"

Range(seq) == {seq[k] : k \in 1..Len(seq)}

\* the transaction of the call caller c is in
Cur(c) == TxId(c, ccalls[c])

\* what sendCommand / sendCommandAsync returned: (frameType, data, error)
Ret(ft, data, err) == [FrameType |-> ft, Data |-> data, Error |-> err]
Pending == Ret(NoFrame, 0, "pending")

\* ------------------------------------------------ WriterTransaction.finish
\* t.doneChan <- t completes when the channel's reader receives: a Publish
\* caller receives once, at <-doneChan of sendCommand; the reader of a
\* PublishAsync caller's channel is always ready
CanFinish(t) ==
    \/ ~Sync(Owner(t))
    \/ /\ cpc[Owner(t)] = "recv"
       /\ Cur(Owner(t)) = t

\* the longest prefix of seq whose finish calls all complete
Upto(seq) ==
    LET stuck == {k \in 1..Len(seq) : ~CanFinish(seq[k])}
    IN  IF stuck = {} THEN Len(seq)
        ELSE (CHOOSE k \in stuck : \A j \in stuck : k <= j) - 1

\* The resolver writes `fields` into the transactions of seq in order and
\* calls finish on each; it blocks in the first finish that cannot complete.
\* Each finish that completes delivers the transaction; sendCommand then
\* returns the transaction's fields to a Publish caller.
Resolve(seq, fields, by) ==
    LET n == Upto(seq)
        done == {seq[k] : k \in 1..n}
        written == {seq[k] : k \in 1..(IF n < Len(seq) THEN n + 1 ELSE n)}
    IN  /\ tx' = [t \in TxIds |->
                    IF t \in written
                    THEN [fields[t] EXCEPT ![by] =
                                             IF t \in done THEN @ + 1 ELSE @]
                    ELSE tx[t]]
        /\ cpc' = [c \in Callers |->
                     IF Sync(c) /\ cpc[c] = "recv" /\ Cur(c) \in done
                     THEN "idle" ELSE cpc[c]]
        /\ cret' = [c \in Callers |->
                      IF Sync(c) /\ cpc[c] = "recv" /\ Cur(c) \in done
                      THEN Ret(fields[Cur(c)].FrameType, fields[Cur(c)].Data,
                               fields[Cur(c)].Error)
                      ELSE cret[c]]

\* Stop has returned to caller s: "returned" after the shutdown it ran,
\* "noop" at once when another call had taken the stop flag
Returned(s) == spc[s] \in {"returned", "noop"}

\* how often transaction t was delivered on its doneChan
Delivered(t) == tx[t].popped + tx[t].cleaned

\* ------------------------------------------------- callers: sendCommandAsync
\* entry: count the writer, load the state
Enter(c) ==
    /\ Running
    /\ cpc[c] = "idle"
    /\ ccalls[c] < MaxCalls
    /\ ccalls' = [ccalls EXCEPT ![c] = @ + 1]
    /\ concurrentWriters' = concurrentWriters + 1
    /\ cwhen' = [cwhen EXCEPT ![c] =
                    [after |-> \E s \in Stoppers : spc[s] = "returned",
                     held |-> FALSE]]
    /\ cret' = [cret EXCEPT ![c] = Pending]
    /\ cpc' = [cpc EXCEPT ![c] = IF state # StateConnected THEN "connect"
                                 ELSE "select"]
    /\ UNCHANGED <<state, stopFlag, exitChan, wconn, wg, transactions, closers,
                   cconn, tx, rpc, conn, nconns, spc, fault>>

\* sendCommandAsync returns err: the deferred decrement; sendCommand returns
\* (-1, nil, err)
ReturnErr(c, err) ==
    /\ concurrentWriters' = concurrentWriters - 1
    /\ cret' = [cret EXCEPT ![c] = Ret(NoFrame, 0, err)]
    /\ cpc' = [cpc EXCEPT ![c] = "idle"]

\* connect: the stop flag
ConnectStopped(c) ==
    /\ Running
    /\ cpc[c] = "connect"
    /\ IF stopFlag = 1
       THEN ReturnErr(c, ErrStopped)
       ELSE /\ cpc' = [cpc EXCEPT ![c] = "cas"]
            /\ UNCHANGED <<concurrentWriters, cret>>
    /\ UNCHANGED <<state, stopFlag, exitChan, wconn, wg, transactions, closers,
                   ccalls, cconn, cwhen, tx, rpc, conn, nconns, spc, fault>>

\* connect that dials from every state but StateConnected: the test of
\* sendCommandAsync in place of the compare-and-swap from StateInit
ConnectUnlessConnected(c) ==
    /\ Running
    /\ cpc[c] = "cas"
    /\ IF state # StateConnected
       THEN /\ state' = StateConnected
            /\ cpc' = [cpc EXCEPT ![c] = "dial"]
            /\ UNCHANGED <<concurrentWriters, cret>>
       ELSE /\ ReturnErr(c, ErrNotConnected)
            /\ UNCHANGED state
    /\ UNCHANGED <<stopFlag, exitChan, wconn, wg, transactions, closers,
                   ccalls, cconn, cwhen, tx, rpc, conn, nconns, spc, fault>>

\* connect with a plain store in place of the compare-and-swap of the state:
\* a connect begun in any state takes the state to StateConnected
ConnectStore(c) ==
    /\ Running
    /\ cpc[c] = "cas"
    /\ state' = StateConnected
    /\ cpc' = [cpc EXCEPT ![c] = "dial"]
    /\ UNCHANGED <<stopFlag, exitChan, wconn, wg, concurrentWriters,
                   transactions, closers, ccalls, cconn, cret, cwhen, tx, rpc,
                   conn, nconns, spc, fault>>

\* connect: CompareAndSwap(state, StateInit, StateConnected)
ConnectCAS(c) ==
    /\ Running
    /\ cpc[c] = "cas"
    /\ IF state = StateInit
       THEN /\ state' = StateConnected
            /\ cpc' = [cpc EXCEPT ![c] = "dial"]
            /\ UNCHANGED <<concurrentWriters, cret>>
       ELSE /\ ReturnErr(c, ErrNotConnected)
            /\ UNCHANGED state
    /\ UNCHANGED <<stopFlag, exitChan, wconn, wg, transactions, closers,
                   ccalls, cconn, cwhen, tx, rpc, conn, nconns, spc, fault>>

\* connect: conn.Connect() failed (dial, magic or identify); the connection
\* is closed, the state stored back to StateInit, the error returned
ConnectFail(c) ==
    /\ Running
    /\ cpc[c] = "dial"
    /\ state' = StateInit
    /\ ReturnErr(c, "connect failed")
    /\ UNCHANGED <<stopFlag, exitChan, wconn, wg, transactions, closers,
                   ccalls, cconn, cwhen, tx, rpc, conn, nconns, spc, fault>>

\* connect: conn.Connect() succeeded; the read and write loops run
ConnectOk(c) ==
    /\ Running
    /\ cpc[c] = "dial"
    /\ nconns < MaxConns
    /\ nconns' = nconns + 1
    /\ conn' = [conn EXCEPT ![nconns + 1] = NewConn]
    /\ cconn' = [cconn EXCEPT ![c] = nconns + 1]
    /\ cpc' = [cpc EXCEPT ![c] = "setconn"]
    /\ UNCHANGED <<writerVars, ccalls, cret, cwhen, tx, rpc, spc, fault>>

\* connect: w.conn = conn
ConnectSetConn(c) ==
    /\ Running
    /\ cpc[c] = "setconn"
    /\ wconn' = cconn[c]
    /\ cpc' = [cpc EXCEPT ![c] = "go"]
    /\ UNCHANGED <<state, stopFlag, exitChan, wg, concurrentWriters, transactions,
                   closers, ccalls, cconn, cret, cwhen, tx, rpc, conn,
                   nconns, spc, fault>>

\* connect: w.wg.Add(1); go w.router(); return nil
ConnectGo(c) ==
    /\ Running
    /\ cpc[c] = "go"
    /\ wg' = wg + 1
    /\ rpc' = [rpc EXCEPT ![cconn[c]] = "select"]
    /\ cconn' = [cconn EXCEPT ![c] = 0]
    /\ cpc' = [cpc EXCEPT ![c] = "select"]
    /\ UNCHANGED <<state, stopFlag, exitChan, wconn, concurrentWriters,
                   transactions, closers, ccalls, cret, cwhen, tx, conn,
                   nconns, spc, fault>>

\* the select of sendCommandAsync, case <-w.exitChan: return ErrStopped
SelectExit(c) ==
    /\ Running
    /\ cpc[c] = "select"
    /\ exitChan
    /\ ReturnErr(c, ErrStopped)
    /\ UNCHANGED <<state, stopFlag, exitChan, wconn, wg, transactions, closers,
                   ccalls, cconn, cwhen, tx, rpc, conn, nconns, spc, fault>>

\* the select of sendCommandAsync, case w.transactionChan <- t: the caller's
\* position once sendCommandAsync has returned nil; a Publish caller goes on
\* to <-doneChan
Handed(c) == IF Sync(c) THEN "recv" ELSE "idle"

\* ------------------------------------------------------------ Writer.close
\* CompareAndSwap(state, StateConnected, StateDisconnected) succeeds
CloseCAS == state = StateConnected

\* w.conn.Close(), then the goroutine that waits for w.wg and stores
\* StateInit.  Conn.Close reads c.Conn: on a nil w.conn it panics.
CloseConn(cs) ==
    IF wconn = 0
    THEN /\ fault' = "nil conn"
         /\ UNCHANGED <<conn, closers>>
    ELSE /\ conn' = [cs EXCEPT ![wconn].sock = "closed"]
         /\ closers' = [closers EXCEPT !.waiting = @ + 1]
         /\ UNCHANGED fault

\* w.close() as the router calls it, on the connections cs
Close(cs) ==
    IF CloseCAS
    THEN /\ state' = StateDisconnected
         /\ CloseConn(cs)
    ELSE /\ conn' = cs
         /\ UNCHANGED <<state, closers, fault>>

\* the goroutine of Writer.close: w.wg.Wait() returns
CloserWake ==
    /\ Running
    /\ closers.waiting > 0
    /\ wg = 0
    /\ closers' = [waiting |-> closers.waiting - 1,
                   released |-> closers.released + 1]
    /\ UNCHANGED <<state, stopFlag, exitChan, wconn, wg, concurrentWriters,
                   transactions, callerVars, tx, rpc, conn, nconns, spc,
                   fault>>

\* the goroutine of Writer.close ending after w.wg.Wait() with the state
\* left as it is
CloserNoStore ==
    /\ Running
    /\ closers.released > 0
    /\ closers' = [closers EXCEPT !.released = @ - 1]
    /\ UNCHANGED <<state, stopFlag, exitChan, wconn, wg, concurrentWriters,
                   transactions, callerVars, tx, rpc, conn, nconns, spc,
                   fault>>

\* the goroutine of Writer.close: StoreInt32(state, StateInit)
CloserStore ==
    /\ Running
    /\ closers.released > 0
    /\ closers' = [closers EXCEPT !.released = @ - 1]
    /\ state' = StateInit
    /\ UNCHANGED <<stopFlag, exitChan, wconn, wg, concurrentWriters,
                   transactions, callerVars, tx, rpc, conn, nconns, spc,
                   fault>>

\* ------------------------------------------------------------ Writer.Stop
StopCAS(s) ==
    /\ Running
    /\ spc[s] = "idle"
    /\ IF stopFlag = 0
       THEN /\ stopFlag' = 1
            /\ spc' = [spc EXCEPT ![s] = "exit"]
       ELSE /\ spc' = [spc EXCEPT ![s] = "noop"]
            /\ UNCHANGED stopFlag
    /\ cwhen' = [c \in Callers |->
                    [cwhen[c] EXCEPT !.held =
                        @ \/ (Sync(c) /\ cpc[c] \in {"select", "recv"})]]
    /\ UNCHANGED <<state, exitChan, wconn, wg, concurrentWriters, transactions,
                   closers, cpc, ccalls, cconn, cret, tx, rpc, conn, nconns,
                   fault>>

\* close(w.exitChan): closing a closed channel would panic
StopCloseExit(s) ==
    /\ Running
    /\ spc[s] = "exit"
    /\ IF exitChan
       THEN /\ fault' = "close of closed channel"
            /\ UNCHANGED <<exitChan, spc>>
       ELSE /\ exitChan' = TRUE
            /\ spc' = [spc EXCEPT ![s] = "close"]
            /\ UNCHANGED fault
    /\ UNCHANGED <<state, stopFlag, wconn, wg, concurrentWriters, transactions,
                   closers, callerVars, tx, rpc, conn, nconns>>

\* w.close(): the CompareAndSwap
StopClose(s) ==
    /\ Running
    /\ spc[s] = "close"
    /\ IF CloseCAS
       THEN /\ state' = StateDisconnected
            /\ spc' = [spc EXCEPT ![s] = "closeconn"]
       ELSE /\ spc' = [spc EXCEPT ![s] = "wait"]
            /\ UNCHANGED state
    /\ UNCHANGED <<stopFlag, exitChan, wconn, wg, concurrentWriters, transactions,
                   closers, callerVars, tx, rpc, conn, nconns, fault>>

\* w.close(): w.conn.Close() and the goroutine
StopCloseConn(s) ==
    /\ Running
    /\ spc[s] = "closeconn"
    /\ CloseConn(conn)
    /\ spc' = [spc EXCEPT ![s] = "wait"]
    /\ UNCHANGED <<state, stopFlag, exitChan, wconn, wg, concurrentWriters,
                   transactions, callerVars, tx, rpc, nconns>>

\* Stop without w.wg.Wait(): it returns as soon as w.close() has
StopNoWait(s) ==
    /\ Running
    /\ spc[s] = "wait"
    /\ spc' = [spc EXCEPT ![s] = "returned"]
    /\ UNCHANGED <<writerVars, callerVars, tx, rpc, conn, nconns, fault>>

\* w.wg.Wait() returns, and Stop with it
StopReturn(s) ==
    /\ Running
    /\ spc[s] = "wait"
    /\ wg = 0
    /\ spc' = [spc EXCEPT ![s] = "returned"]
    /\ UNCHANGED <<writerVars, callerVars, tx, rpc, conn, nconns, fault>>

\* ----------------------------------------------------- Conn: the close path
\* Conn.close: once, close(exitChan), start cleanup and waitForCleanup
ConnClose(c) ==
    IF c.stopper THEN c
    ELSE [c EXCEPT !.stopper = TRUE, !.exitChan = TRUE, !.wg = @ + 1,
                   !.cl = "wait", !.wfc = "wait"]

\* readLoop exit: readLoopRunning = 0; no message is ever in flight on a
\* publisher's connection, so close(); wg.Done()
ReadLoopExit(c) ==
    [ConnClose(c) EXCEPT !.rl = "done", !.readLoopRunning = 0, !.wg = @ - 1]

\* writeLoop, case <-c.exitChan: close(drainReady); wg.Done()
WriteLoopExit(c) ==
    IF c.wl = "run" /\ c.exitChan
    THEN [c EXCEPT !.wl = "done", !.drainReady = TRUE, !.wg = @ - 1]
    ELSE c

\* cleanup: past <-drainReady, the ticker finds no message in flight and the
\* read loop stopped; wg.Done()
ConnCleanup(c) ==
    IF c.cl = "wait" /\ c.drainReady /\ c.readLoopRunning = 0
    THEN [c EXCEPT !.cl = "done", !.wg = @ - 1]
    ELSE c

\* waitForCleanup: wg.Wait() returns; c.Close(); CloseCB sends on w.closeChan
WaitForCleanup(c) ==
    IF c.wfc = "wait" /\ c.wg = 0
    THEN [c EXCEPT !.wfc = "cb", !.sock = "closed"]
    ELSE c

\* What the connection's goroutines do, on their own, once IOErrorCB has
\* returned to the read loop: these steps touch the connection only, and are
\* taken together up to the send of CloseCB
Shutdown(c) == WaitForCleanup(ConnCleanup(WriteLoopExit(ReadLoopExit(c))))

\* ------------------------------------------------------------ Conn.readLoop
\* ReadUnpackedResponse: the broker answers the oldest command it received
\* with a response or an error frame, or sends a heartbeat, or the read
\* fails; on a closed socket it can only fail.  The read loop then calls the
\* frame's callback, which sends on a channel of the Writer.
ReadFrame(i, kind) ==
    /\ Running
    /\ conn[i].rl = "read"
    /\ kind # "cbIOError" => conn[i].sock = "open"
    /\ IF kind \in {"cbResponse", "cbError"}
       THEN /\ conn[i].wire # <<>>
            /\ conn' = [conn EXCEPT ![i].rl = kind,
                                    ![i].data = Head(conn[i].wire),
                                    ![i].wire = Tail(@)]
       ELSE conn' = [conn EXCEPT ![i].rl = kind]
    /\ UNCHANGED <<writerVars, callerVars, tx, rpc, nconns, spc, fault>>

\* ----------------------------------------------------------- Writer.router
RouterAtSelect(r) == Running /\ rpc[r] = "select"

\* Conn.SendCommand of the command of transaction t on connection i: the
\* broker receives it, or the write fails; on a closed socket it can only fail
SendCommand(i, t, ok) ==
    [conn EXCEPT ![i].sent = Append(@, t),
                 ![i].wire = IF ok THEN Append(@, t) ELSE @]

\* a router that sends one command for each body of a batch
RouterTransactionPerBody(r, c, ok) ==
    LET t == Cur(c)
        k == IF tx[t].bodies > 1 THEN tx[t].bodies ELSE 1
        cmds == [n \in 1..k |-> t]
    IN  /\ RouterAtSelect(r)
        /\ cpc[c] = "select"
        /\ ok => conn[wconn].sock = "open"
        /\ transactions' = Append(transactions, t)
        /\ concurrentWriters' = concurrentWriters - 1
        /\ cret' = [cret EXCEPT ![c] = IF Sync(c) THEN @
                                       ELSE Ret(NoFrame, 0, "nil")]
        /\ cpc' = [cpc EXCEPT ![c] = Handed(c)]
        /\ tx' = [tx EXCEPT ![t].handed = TRUE]
        /\ IF ok
           THEN /\ conn' = [conn EXCEPT ![wconn].sent = @ \o cmds,
                                        ![wconn].wire = @ \o cmds]
                /\ UNCHANGED <<state, closers, fault>>
           ELSE Close(SendCommand(wconn, t, ok))
        /\ UNCHANGED <<stopFlag, exitChan, wconn, wg, ccalls, cconn, cwhen,
                       rpc, nconns, spc>>

\* case t := <-w.transactionChan: append, send, w.close() on a failed write.
\* The sender is a caller parked in the select of sendCommandAsync.
RouterTransaction(r, c, ok) ==
    /\ RouterAtSelect(r)
    /\ cpc[c] = "select"
    /\ ok => conn[wconn].sock = "open"
    /\ transactions' = Append(transactions, Cur(c))
    /\ concurrentWriters' = concurrentWriters - 1
    /\ cret' = [cret EXCEPT ![c] = IF Sync(c) THEN @ ELSE Ret(NoFrame, 0, "nil")]
    /\ cpc' = [cpc EXCEPT ![c] = Handed(c)]
    /\ tx' = [tx EXCEPT ![Cur(c)].handed = TRUE]
    /\ IF ok
       THEN /\ conn' = SendCommand(wconn, Cur(c), ok)
            /\ UNCHANGED <<state, closers, fault>>
       ELSE Close(SendCommand(wconn, Cur(c), ok))
    /\ UNCHANGED <<stopFlag, exitChan, wconn, wg, ccalls, cconn, cwhen, rpc,
                   nconns, spc>>

\* popTransaction(frameType, data): the oldest transaction leaves the
\* sequence, gets the frame and a nil Error, and is finished; indexing an
\* empty sequence panics
PopTransaction(r, ft, data, i) ==
    IF transactions = <<>>
    THEN /\ fault' = "index out of range"
         /\ UNCHANGED <<transactions, tx, cpc, cret, rpc>>
    ELSE /\ transactions' = Tail(transactions)
         /\ Resolve(<<Head(transactions)>>,
                    [t \in TxIds |->
                        [tx[t] EXCEPT !.FrameType = ft, !.Data = data,
                                      !.Error = "nil", !.fconn = i,
                                      !.frame = conn[i].frames + 1]],
                    "popped")
         /\ rpc' = [rpc EXCEPT ![r] = IF CanFinish(Head(transactions))
                                      THEN "select" ELSE "stuck"]
         /\ UNCHANGED fault

\* a router that handles an error frame as it handles an IO error: the
\* transaction is popped, then w.close()
RouterFrameFatal(r, i) ==
    /\ RouterAtSelect(r)
    /\ conn[i].rl \in {"cbResponse", "cbError"}
    /\ PopTransaction(r, IF conn[i].rl = "cbResponse" THEN FrameTypeResponse
                         ELSE FrameTypeError, conn[i].data, i)
    /\ IF transactions # <<>> /\ conn[i].rl = "cbError"
       THEN Close([conn EXCEPT ![i].rl = "read", ![i].data = 0,
                               ![i].frames = @ + 1])
       ELSE /\ conn' = IF transactions = <<>> THEN conn
                       ELSE [conn EXCEPT ![i].rl = "read", ![i].data = 0,
                                         ![i].frames = @ + 1]
            /\ UNCHANGED <<state, closers>>
    /\ UNCHANGED <<stopFlag, exitChan, wconn, wg, concurrentWriters,
                   ccalls, cconn, cwhen, nconns, spc>>

\* case data := <-w.responseChan / <-w.errorChan: the sender is the read loop
\* of connection i, inside ResponseCB or ErrorCB
RouterFrame(r, i) ==
    /\ RouterAtSelect(r)
    /\ conn[i].rl \in {"cbResponse", "cbError"}
    /\ PopTransaction(r, IF conn[i].rl = "cbResponse" THEN FrameTypeResponse
                         ELSE FrameTypeError, conn[i].data, i)
    /\ conn' = IF transactions = <<>> THEN conn
               ELSE [conn EXCEPT ![i].rl = "read", ![i].data = 0,
                                 ![i].frames = @ + 1]
    /\ UNCHANGED <<state, stopFlag, exitChan, wconn, wg, concurrentWriters,
                   closers, ccalls, cconn, cwhen, nconns, spc>>

\* case <-w.heartbeatChan: the sender is the read loop of connection i, inside
\* HeartbeatCB; the read loop then sends the Nop and, when that write fails,
\* calls IOErrorCB
RouterHeartbeat(r, i, ok) ==
    /\ RouterAtSelect(r)
    /\ conn[i].rl = "cbHeartbeat"
    /\ ok => conn[i].sock = "open"
    /\ conn' = [conn EXCEPT ![i].rl = IF ok THEN "read" ELSE "cbIOError"]
    /\ UNCHANGED <<writerVars, callerVars, tx, rpc, nconns, spc, fault>>

\* case err := <-w.ioErrorChan: w.close().  The sender is the read loop of
\* connection i, inside IOErrorCB; it exits when the callback returns.
RouterIOError(r, i) ==
    /\ RouterAtSelect(r)
    /\ conn[i].rl = "cbIOError"
    /\ Close([conn EXCEPT ![i] = Shutdown(@)])
    /\ UNCHANGED <<stopFlag, exitChan, wconn, wg, concurrentWriters,
                   transactions, callerVars, tx, rpc, nconns, spc>>

\* goto exit; transactionCleanup, the range loop over w.transactions:
\* t.Error = ErrNotConnected; t.finish()
RouterExit(r) ==
    /\ Resolve(transactions,
               [t \in TxIds |-> [tx[t] EXCEPT !.Error = ErrNotConnected]],
               "cleaned")
    /\ rpc' = [rpc EXCEPT ![r] = IF Upto(transactions) = Len(transactions)
                                 THEN "cleanup" ELSE "stuck"]

\* case <-w.closeChan: the sender is waitForCleanup of connection i, in CloseCB
RouterCloseChan(r, i) ==
    /\ RouterAtSelect(r)
    /\ conn[i].wfc = "cb"
    /\ conn' = [conn EXCEPT ![i].wfc = "done", ![i].closeCB = @ + 1]
    /\ RouterExit(r)
    /\ UNCHANGED <<writerVars, ccalls, cconn, cwhen, nconns, spc, fault>>

\* case <-w.exitChan
RouterExitChan(r) ==
    /\ RouterAtSelect(r)
    /\ exitChan
    /\ RouterExit(r)
    /\ UNCHANGED <<writerVars, ccalls, cconn, cwhen, conn, nconns, spc, fault>>

\* transactionCleanup: w.transactions = w.transactions[:0]
CleanupTruncate(r) ==
    /\ Running
    /\ rpc[r] = "cleanup"
    /\ transactions' = <<>>
    /\ rpc' = [rpc EXCEPT ![r] = "spin"]
    /\ UNCHANGED <<state, stopFlag, exitChan, wconn, wg, concurrentWriters,
                   closers, callerVars, tx, conn, nconns, spc, fault>>

\* transactionCleanup, the spin, case t := <-w.transactionChan:
\* t.Error = ErrNotConnected; t.finish()
CleanupDrain(r, c) ==
    /\ Running
    /\ rpc[r] = "spin"
    /\ cpc[c] = "select"
    /\ concurrentWriters' = concurrentWriters - 1
    /\ tx' = [tx EXCEPT ![Cur(c)].handed = TRUE,
                        ![Cur(c)].Error = ErrNotConnected,
                        ![Cur(c)].cleaned = @ + 1]
    /\ cpc' = [cpc EXCEPT ![c] = "idle"]
    /\ cret' = [cret EXCEPT ![c] =
                  IF Sync(c) THEN Ret(tx[Cur(c)].FrameType, tx[Cur(c)].Data,
                                      ErrNotConnected)
                  ELSE Ret(NoFrame, 0, "nil")]
    /\ UNCHANGED <<state, stopFlag, exitChan, wconn, wg, transactions, closers,
                   ccalls, cconn, cwhen, rpc, conn, nconns, spc, fault>>

\* transactionCleanup, the spin: default, with no concurrent writer left;
\* back in router, w.wg.Done()
CleanupReturn(r) ==
    /\ Running
    /\ rpc[r] = "spin"
    /\ \A c \in Callers : cpc[c] # "select"
    /\ concurrentWriters = 0
    /\ wg' = wg - 1
    /\ rpc' = [rpc EXCEPT ![r] = "done"]
    /\ UNCHANGED <<state, stopFlag, exitChan, wconn, concurrentWriters,
                   transactions, closers, callerVars, tx, conn, nconns, spc,
                   fault>>

\* ------------------------------------------------------------------- system
CallerStep(c) ==
    \/ Enter(c)
    \/ ConnectStopped(c)
    \/ ConnectCAS(c)
    \/ ConnectFail(c)
    \/ ConnectOk(c)
    \/ ConnectSetConn(c)
    \/ ConnectGo(c)
    \/ SelectExit(c)

StopStep(s) ==
    \/ StopCAS(s)
    \/ StopCloseExit(s)
    \/ StopClose(s)
    \/ StopCloseConn(s)
    \/ StopReturn(s)

RouterStep(r) ==
    \/ \E c \in Callers, ok \in BOOLEAN : RouterTransaction(r, c, ok)
    \/ \E i \in ConnIds : RouterFrame(r, i)
    \/ \E i \in ConnIds, ok \in BOOLEAN : RouterHeartbeat(r, i, ok)
    \/ \E i \in ConnIds : RouterIOError(r, i)
    \/ \E i \in ConnIds : RouterCloseChan(r, i)
    \/ RouterExitChan(r)
    \/ CleanupTruncate(r)
    \/ \E c \in Callers : CleanupDrain(r, c)
    \/ CleanupReturn(r)

ConnStep(i) ==
    \E kind \in {"cbResponse", "cbError", "cbHeartbeat", "cbIOError"} :
        ReadFrame(i, kind)

Next ==
    \/ \E c \in Callers : CallerStep(c)
    \/ \E s \in Stoppers : StopStep(s)
    \/ \E r \in ConnIds : RouterStep(r)
    \/ \E i \in ConnIds : ConnStep(i)
    \/ CloserWake
    \/ CloserStore

Spec == Init /\ [][Next]_vars

\* ------------------------------------------ the publisher that is not stopped
\* the steps of a call in progress, up to its select
CallerRun(c) ==
    \/ ConnectStopped(c)
    \/ ConnectCAS(c)
    \/ ConnectFail(c)
    \/ ConnectOk(c)
    \/ ConnectSetConn(c)
    \/ ConnectGo(c)

\* the steps of a router while w.exitChan is open
RouterRun(r) ==
    \/ \E c \in Callers, ok \in BOOLEAN : RouterTransaction(r, c, ok)
    \/ \E i \in ConnIds : RouterFrame(r, i)
    \/ \E i \in ConnIds, ok \in BOOLEAN : RouterHeartbeat(r, i, ok)
    \/ \E i \in ConnIds : RouterIOError(r, i)
    \/ \E i \in ConnIds : RouterCloseChan(r, i)
    \/ CleanupTruncate(r)
    \/ \E c \in Callers : CleanupDrain(r, c)
    \/ CleanupReturn(r)

\* the program when nobody calls Stop
NotStoppedNext ==
    \/ \E c \in Callers : Enter(c)
    \/ \E c \in Callers : CallerRun(c)
    \/ \E r \in ConnIds : RouterRun(r)
    \/ \E i \in ConnIds : ConnStep(i)
    \/ CloserWake
    \/ CloserStore

\* Every goroutine that can take a step eventually takes one, and a read on
\* a closed socket eventually fails; no caller is obliged to begin a call.
NotStoppedSpec ==
    /\ Init
    /\ [][NotStoppedNext]_vars
    /\ \A c \in Callers : WF_vars(CallerRun(c))
    /\ \A r \in ConnIds : WF_vars(RouterRun(r))
    /\ \A i \in ConnIds :
          WF_vars(conn[i].sock = "closed" /\ ReadFrame(i, "cbIOError"))
    /\ WF_vars(CloserWake)
    /\ WF_vars(CloserStore)

\* ------------------------------------------------ one Conn, step by step
\* A connection after Conn.Connect, at the grain of its goroutines (readLoop,
\* writeLoop, cleanup, waitForCleanup), with an owner whose callbacks return
\* and message handlers that acknowledge on finishedMessages.  The connection
\* is conn[TheConn]; the Writer takes no step.
TheConn == 1

\* frames the broker sends before the stream ends
MaxFrames == 3
\* commands the message handlers put on cmdChan (Message.Touch)
MaxCmds == 1

\* what ReadUnpackedResponse returns: a frame, by type and payload, or an
\* error
FrameKinds == {"response", "error", "message", "badmessage", "heartbeat",
               "unknown"}
ReadError == "ioerror"

Callbacks == {"ResponseCB", "ErrorCB", "MessageCB", "MessageProcessedCB",
              "IOErrorCB", "HeartbeatCB", "CloseCB"}

\* decoded: the frames the read loop decoded, in order; cb: how often each
\* callback was called; nops: calls of SendCommand(Nop()); cmds: commands
\* taken from cmdChan; closeCalls: calls of c.close(); started: how often
\* exitChan was closed and cleanup and waitForCleanup were started
StartedConn ==
    [sock |-> "open", stopFlag |-> 0, messagesInFlight |-> 0,
     rdyCount |-> 0, acked |-> 0,
     readLoopRunning |-> 1, exitChan |-> FALSE, drainReady |-> FALSE,
     wg |-> 2, stopper |-> FALSE,
     rl |-> "top", wl |-> "select", cl |-> "none", wfc |-> "none",
     decoded |-> <<>>, cb |-> [k \in Callbacks |-> 0], nops |-> 0, cmds |-> 0,
     closeCalls |-> 0,
     started |-> [exitChan |-> 0, cleanup |-> 0, waitForCleanup |-> 0]]

ConnInit ==
    /\ state = StateInit
    /\ stopFlag = 0
    /\ exitChan = FALSE
    /\ wconn = 0
    /\ wg = 0
    /\ concurrentWriters = 0
    /\ transactions = <<>>
    /\ closers = [waiting |-> 0, released |-> 0]
    /\ cpc = [c \in Callers |-> "idle"]
    /\ ccalls = [c \in Callers |-> 0]
    /\ cconn = [c \in Callers |-> 0]
    /\ cret = [c \in Callers |-> Pending]
    /\ cwhen = [c \in Callers |-> [after |-> FALSE, held |-> FALSE]]
    /\ tx = [t \in TxIds |-> NoTx]
    /\ rpc = [r \in ConnIds |-> "none"]
    /\ conn = [i \in ConnIds |-> IF i = TheConn THEN StartedConn ELSE NoConn]
    /\ nconns = 0
    /\ spc = [s \in Stoppers |-> "idle"]
    /\ fault = "none"

\* the step of a goroutine of the connection, from c == conn[TheConn] to d
ConnTo(d) ==
    /\ conn' = [conn EXCEPT ![TheConn] = d]
    /\ UNCHANGED <<writerVars, callerVars, tx, rpc, nconns, spc, fault>>

Called(c, k) == [c EXCEPT !.cb[k] = @ + 1]

\* c.close() without the sync.Once: every call runs the body
StopperEveryCall(c) ==
    [c EXCEPT !.closeCalls = @ + 1, !.stopper = TRUE,
              !.exitChan = TRUE, !.wg = @ + 1,
              !.cl = "wait", !.wfc = "wait",
              !.started = [exitChan |-> @.exitChan + 1,
                           cleanup |-> @.cleanup + 1,
                           waitForCleanup |-> @.waitForCleanup + 1]]

\* c.close(): c.stopper.Do(close(exitChan); wg.Add(1); go cleanup();
\* go waitForCleanup())
Stopper(c) ==
    IF c.stopper THEN [c EXCEPT !.closeCalls = @ + 1]
    ELSE [c EXCEPT !.closeCalls = @ + 1, !.stopper = TRUE,
                   !.exitChan = TRUE, !.wg = @ + 1,
                   !.cl = "wait", !.wfc = "wait",
                   !.started = [exitChan |-> @.exitChan + 1,
                                cleanup |-> @.cleanup + 1,
                                waitForCleanup |-> @.waitForCleanup + 1]]

\* readLoop, top of the loop: if stopFlag == 1 goto exit
ReadLoopTop ==
    LET c == conn[TheConn]
    IN  /\ c.rl = "top"
        /\ ConnTo([c EXCEPT !.rl = IF c.stopFlag = 1 THEN "exit" ELSE "read"])

\* a read loop without the test for the heartbeat payload: the frame goes
\* to the switch, which hands a response frame to ResponseCB
ReadLoopReadNoHeartbeat(kind) ==
    LET c == conn[TheConn]
        d == [c EXCEPT !.decoded = Append(@, kind)]
    IN  /\ c.rl = "read"
        /\ kind # ReadError => (c.sock = "open" /\ Len(c.decoded) < MaxFrames)
        /\ ConnTo(CASE kind = ReadError ->
                         [Called(c, "IOErrorCB") EXCEPT !.rl = "exit"]
                    [] kind \in {"heartbeat", "response"} ->
                         [Called(d, "ResponseCB") EXCEPT !.rl = "top"]
                    [] kind = "message" ->
                         [Called(d, "MessageCB") EXCEPT
                              !.rl = "top", !.rdyCount = @ - 1,
                              !.messagesInFlight = @ + 1]
                    [] kind = "badmessage" ->
                         [Called(d, "IOErrorCB") EXCEPT !.rl = "exit"]
                    [] kind = "error" ->
                         [Called(d, "ErrorCB") EXCEPT !.rl = "top"]
                    [] kind = "unknown" ->
                         [Called(d, "IOErrorCB") EXCEPT !.rl = "top"])

\* readLoop: ReadUnpackedResponse and the dispatch of what it returned.  The
\* default case of the switch calls IOErrorCB and falls out of the switch to
\* the top of the loop.
ReadLoopRead(kind) ==
    LET c == conn[TheConn]
        d == [c EXCEPT !.decoded = Append(@, kind)]
    IN  /\ c.rl = "read"
        /\ kind # ReadError => (c.sock = "open" /\ Len(c.decoded) < MaxFrames)
        /\ ConnTo(CASE kind = ReadError ->
                         [Called(c, "IOErrorCB") EXCEPT !.rl = "exit"]
                    [] kind = "heartbeat" ->
                         [Called(d, "HeartbeatCB") EXCEPT !.rl = "nop"]
                    [] kind = "response" ->
                         [Called(d, "ResponseCB") EXCEPT !.rl = "top"]
                    [] kind = "message" ->
                         [Called(d, "MessageCB") EXCEPT
                              !.rl = "top", !.rdyCount = @ - 1,
                              !.messagesInFlight = @ + 1]
                    [] kind = "badmessage" ->
                         [Called(d, "IOErrorCB") EXCEPT !.rl = "exit"]
                    [] kind = "error" ->
                         [Called(d, "ErrorCB") EXCEPT !.rl = "top"]
                    [] kind = "unknown" ->
                         [Called(d, "IOErrorCB") EXCEPT !.rl = "top"])

\* a read loop that reports a failed Nop and goes on reading
ReadLoopNopGoesOn(ok) ==
    LET c == conn[TheConn]
        d == [c EXCEPT !.nops = @ + 1]
    IN  /\ c.rl = "nop"
        /\ ok => c.sock = "open"
        /\ ConnTo(IF ok THEN [d EXCEPT !.rl = "top"]
                  ELSE [Called(d, "IOErrorCB") EXCEPT !.rl = "top"])

\* readLoop after HeartbeatCB: err := c.SendCommand(Nop()); a write on a
\* closed socket fails
ReadLoopNop(ok) ==
    LET c == conn[TheConn]
        d == [c EXCEPT !.nops = @ + 1]
    IN  /\ c.rl = "nop"
        /\ ok => c.sock = "open"
        /\ ConnTo(IF ok THEN [d EXCEPT !.rl = "top"]
                  ELSE [Called(d, "IOErrorCB") EXCEPT !.rl = "exit"])

\* readLoop, exit: StoreInt32(&c.readLoopRunning, 0)
ReadLoopStore ==
    LET c == conn[TheConn]
    IN  /\ c.rl = "exit"
        /\ ConnTo([c EXCEPT !.readLoopRunning = 0, !.rl = "exit2"])

\* readLoop, exit: close() when no message is in flight; wg.Done()
ReadLoopDone ==
    LET c == conn[TheConn]
        d == IF c.messagesInFlight = 0 THEN Stopper(c) ELSE c
    IN  /\ c.rl = "exit2"
        /\ ConnTo([d EXCEPT !.rl = "done", !.wg = @ - 1])

\* writeLoop, case <-c.exitChan: close(drainReady); wg.Done()
WriteLoopExitChan ==
    LET c == conn[TheConn]
    IN  /\ c.wl = "select"
        /\ c.exitChan
        /\ ConnTo([c EXCEPT !.wl = "done", !.drainReady = TRUE, !.wg = @ - 1])

\* writeLoop, case cmd := <-c.cmdChan: SendCommand; close() when it fails
WriteLoopCmd(ok) ==
    LET c == conn[TheConn]
        d == [c EXCEPT !.cmds = @ + 1]
    IN  /\ c.wl = "select"
        /\ c.cmds < MaxCmds
        /\ ok => c.sock = "open"
        /\ ConnTo(IF ok THEN d ELSE Stopper(d))

\* a handler of a delivered message is sending its one Finish or Requeue on
\* finishedMessages; acked counts the ones received
AckPending(c) == c.cb["MessageCB"] > c.acked

\* a write loop that counts a finished message down only after FIN or REQ
\* was sent
WriteLoopFinishedLate(ok) ==
    LET c == conn[TheConn]
        a == [c EXCEPT !.acked = @ + 1]
        d == [a EXCEPT !.messagesInFlight = @ - 1]
    IN  /\ c.wl = "select"
        /\ AckPending(c)
        /\ ok => c.sock = "open"
        /\ ConnTo(IF ~ok THEN Stopper(a)
                  ELSE IF d.messagesInFlight = 0 /\ d.stopFlag = 1
                       THEN Stopper(Called(d, "MessageProcessedCB"))
                       ELSE Called(d, "MessageProcessedCB"))

\* writeLoop, case finishedMsg := <-c.finishedMessages: a handler's Finish or
\* Requeue; the counter goes down, FIN or REQ is sent, close() when the send
\* fails, else MessageProcessedCB and close() after the last message of a
\* stopped connection
WriteLoopFinished(ok) ==
    LET c == conn[TheConn]
        d == [c EXCEPT !.messagesInFlight = @ - 1, !.acked = @ + 1]
    IN  /\ c.wl = "select"
        /\ AckPending(c)
        /\ ok => c.sock = "open"
        /\ ConnTo(IF ~ok THEN Stopper(d)
                  ELSE IF d.messagesInFlight = 0 /\ d.stopFlag = 1
                       THEN Stopper(Called(d, "MessageProcessedCB"))
                       ELSE Called(d, "MessageProcessedCB"))

\* cleanup: <-c.drainReady
CleanupDrainReady ==
    LET c == conn[TheConn]
    IN  /\ c.cl = "wait"
        /\ c.drainReady
        /\ ConnTo([c EXCEPT !.cl = "select"])

\* cleanup, the select and the test of msgsInFlight: a handler's Finish or
\* Requeue is received and the counter goes down (recv), or the ticker fires
\* and the counter is loaded
CleanupSelect(recv) ==
    LET c == conn[TheConn]
        msgsInFlight == IF recv THEN c.messagesInFlight - 1
                        ELSE c.messagesInFlight
    IN  /\ c.cl = "select"
        /\ recv => AckPending(c)
        /\ ConnTo([c EXCEPT !.messagesInFlight = msgsInFlight,
                            !.acked = IF recv THEN @ + 1 ELSE @,
                            !.cl = IF msgsInFlight > 0 THEN "select"
                                   ELSE "load"])

\* cleanup: if LoadInt32(&c.readLoopRunning) == 1 continue, else exit:
\* wg.Done()
CleanupLoad ==
    LET c == conn[TheConn]
    IN  /\ c.cl = "load"
        /\ ConnTo(IF c.readLoopRunning = 1 THEN [c EXCEPT !.cl = "select"]
                  ELSE [c EXCEPT !.cl = "done", !.wg = @ - 1])

\* waitForCleanup without wg.Wait()
WaitForCleanupNoWait ==
    LET c == conn[TheConn]
    IN  /\ c.wfc = "wait"
        /\ ConnTo([Called(c, "CloseCB") EXCEPT !.wfc = "done",
                                              !.sock = "closed"])

\* waitForCleanup: wg.Wait() returns; c.Close(); CloseCB
WaitForCleanupDone ==
    LET c == conn[TheConn]
    IN  /\ c.wfc = "wait"
        /\ c.wg = 0
        /\ ConnTo([Called(c, "CloseCB") EXCEPT !.wfc = "done",
                                              !.sock = "closed"])

\* the owner calls Conn.Stop
ConnStop ==
    LET c == conn[TheConn]
    IN  /\ c.stopFlag = 0
        /\ ConnTo([c EXCEPT !.stopFlag = 1])

\* the owner calls Conn.Close, as Writer.close does: c.Conn.Close()
ConnCloseSocket ==
    LET c == conn[TheConn]
    IN  /\ c.sock = "open"
        /\ ConnTo([c EXCEPT !.sock = "closed"])

ConnNext ==
    \/ ReadLoopTop
    \/ \E kind \in FrameKinds \cup {ReadError} : ReadLoopRead(kind)
    \/ \E ok \in BOOLEAN : ReadLoopNop(ok)
    \/ ReadLoopStore
    \/ ReadLoopDone
    \/ WriteLoopExitChan
    \/ \E ok \in BOOLEAN : WriteLoopCmd(ok)
    \/ \E ok \in BOOLEAN : WriteLoopFinished(ok)
    \/ CleanupDrainReady
    \/ \E recv \in BOOLEAN : CleanupSelect(recv)
    \/ CleanupLoad
    \/ WaitForCleanupDone
    \/ ConnStop
    \/ ConnCloseSocket

ConnSpec == ConnInit /\ [][ConnNext]_vars

\* ------------------------------------------------------- Conn.SendCommand
\* The publisher takes no step: every variable but conn is as in Init
IdleWriter ==
    /\ state = StateInit
    /\ stopFlag = 0
    /\ exitChan = FALSE
    /\ wconn = 0
    /\ wg = 0
    /\ concurrentWriters = 0
    /\ transactions = <<>>
    /\ closers = [waiting |-> 0, released |-> 0]
    /\ cpc = [c \in Callers |-> "idle"]
    /\ ccalls = [c \in Callers |-> 0]
    /\ cconn = [c \in Callers |-> 0]
    /\ cret = [c \in Callers |-> Pending]
    /\ cwhen = [c \in Callers |-> [after |-> FALSE, held |-> FALSE]]
    /\ tx = [t \in TxIds |-> NoTx]
    /\ rpc = [r \in ConnIds |-> "none"]
    /\ nconns = 0
    /\ spc = [s \in Stoppers |-> "idle"]
    /\ fault = "none"

\* The goroutines that call SendCommand on one connection: the publisher's
\* router (a publish), the read loop (the Nop after a heartbeat) and the
\* write loop (FIN, REQ, TOUCH)
Senders == {"router", "readLoop", "writeLoop"}

\* commands each sender sends
MaxSends == 2
\* bytes of a serialized command
CmdLen == 2

\* the bytes of the n-th command of sender t
CmdBytes(t, n) == [k \in 1..CmdLen |-> [by |-> t, cmd |-> n, byte |-> k]]

\* mutex: the sender holding c.Mutex; cmdBuf: c.cmdBuf; out: the bytes
\* written to the socket, in order; at: each sender's place in SendCommand;
\* n: the commands each sender began to send; flateWriter: deflate is on
SendingConn(flate) ==
    [mutex |-> "none", cmdBuf |-> <<>>, out |-> <<>>,
     at |-> [t \in Senders |-> "idle"], n |-> [t \in Senders |-> 0],
     flateWriter |-> flate]

SendInit ==
    /\ IdleWriter
    /\ \E flate \in BOOLEAN :
          conn = [i \in ConnIds |-> IF i = TheConn THEN SendingConn(flate)
                                    ELSE NoConn]

\* a sender calls SendCommand
SendCall(t) ==
    LET c == conn[TheConn]
    IN  /\ c.at[t] = "idle"
        /\ c.n[t] < MaxSends
        /\ ConnTo([c EXCEPT !.at[t] = "lock", !.n[t] = @ + 1])

\* c.Lock() without the mutex: it returns at once
SendLockFree(t) ==
    LET c == conn[TheConn]
    IN  /\ c.at[t] = "lock"
        /\ ConnTo([c EXCEPT !.at[t] = "buffer"])

\* c.Lock(): returns when no other sender holds the mutex
SendLock(t) ==
    LET c == conn[TheConn]
    IN  /\ c.at[t] = "lock"
        /\ c.mutex = "none"
        /\ ConnTo([c EXCEPT !.mutex = t, !.at[t] = "buffer"])

\* c.cmdBuf.Reset(); err := cmd.Write(&c.cmdBuf); on an error return
SendBuffer(t, ok) ==
    LET c == conn[TheConn]
    IN  /\ c.at[t] = "buffer"
        /\ ConnTo(IF ok
                  THEN [c EXCEPT !.cmdBuf = CmdBytes(t, c.n[t]),
                                 !.at[t] = "write"]
                  ELSE [c EXCEPT !.cmdBuf = <<>>, !.at[t] = "unlock"])

\* c.cmdBuf.WriteTo(c): the bytes of the buffer go to the socket one after
\* the other; a failed write returns the error
SendWrite(t, ok) ==
    LET c == conn[TheConn]
    IN  /\ c.at[t] = "write"
        /\ ConnTo(IF ~ok THEN [c EXCEPT !.at[t] = "unlock"]
                  ELSE IF c.cmdBuf = <<>> THEN [c EXCEPT !.at[t] = "flush"]
                  ELSE [c EXCEPT !.out = Append(@, Head(c.cmdBuf)),
                                 !.cmdBuf = Tail(@),
                                 !.at[t] = IF Len(c.cmdBuf) = 1 THEN "flush"
                                           ELSE "write"])

\* if c.flateWriter != nil return c.flateWriter.Flush(); return nil.  The
\* flush is written to out as the byte after the command's last
SendFlush(t) ==
    LET c == conn[TheConn]
    IN  /\ c.at[t] = "flush"
        /\ ConnTo([c EXCEPT !.at[t] = "unlock",
                            !.out = IF c.flateWriter
                                    THEN Append(@, [by |-> t, cmd |-> c.n[t],
                                                    byte |-> CmdLen + 1])
                                    ELSE @])

\* defer c.Unlock()
SendUnlock(t) ==
    LET c == conn[TheConn]
    IN  /\ c.at[t] = "unlock"
        /\ ConnTo([c EXCEPT !.at[t] = "idle",
                            !.mutex = IF @ = t THEN "none" ELSE @])

SendNext ==
    \E t \in Senders :
        \/ SendCall(t)
        \/ SendLock(t)
        \/ \E ok \in BOOLEAN : SendBuffer(t, ok)
        \/ \E ok \in BOOLEAN : SendWrite(t, ok)
        \/ SendFlush(t)
        \/ SendUnlock(t)

SendSpec == SendInit /\ [][SendNext]_vars

\* ---------------------------------------------- Conn.Connect, step by step
\* A publish call that finds the state Init and connects, the handshake at
\* the grain of its writes and reads, with a broker that may answer anything.
\* The model ends where the router starts.
Upgrades == <<"tls", "deflate", "snappy">>

\* what the broker grants in its answer to IDENTIFY
Grants == [{"tls", "deflate", "snappy"} -> BOOLEAN]
NoGrant == [u \in {"tls", "deflate", "snappy"} |-> FALSE]

\* A Conn made by NewConn.  hs: the place of Connect / identify; layers: the
\* upgrades applied to c.r and c.w, in order; reads: the frames
\* ReadUnpackedResponse returned during the handshake, in order; ret: what
\* Connect returned
HandshakeConn ==
    [sock |-> "none", hs |-> "dial", granted |-> NoGrant, layers |-> <<>>,
     reads |-> <<>>, rl |-> "none", wl |-> "none", wg |-> 0,
     readLoopRunning |-> 0, ret |-> "pending"]

HandshakeInit ==
    /\ IdleWriter
    /\ conn = [i \in ConnIds |-> HandshakeConn]

\* the handshake step of caller c, from conn[cconn[c]] to d
HandshakeTo(c, d) ==
    /\ conn' = [conn EXCEPT ![cconn[c]] = d]
    /\ UNCHANGED <<writerVars, callerVars, tx, rpc, nconns, spc, fault>>

InHandshake(c, at) ==
    /\ Running
    /\ cpc[c] = "handshake"
    /\ conn[cconn[c]].hs = at

\* Connect or identify returns an error
Failed(k) == [k EXCEPT !.hs = "returned", !.ret = "error"]

\* the `if resp.TLSv1 / resp.Deflate / resp.Snappy` tests of identify after
\* the upgrade at place n of Upgrades: the next granted upgrade, or the end
NextUpgrade(k, n) ==
    LET later == {m \in (n + 1)..Len(Upgrades) : k.granted[Upgrades[m]]}
    IN  IF later = {} THEN "start"
        ELSE Upgrades[CHOOSE m \in later : \A j \in later : m <= j]

Place(u) == CHOOSE n \in 1..Len(Upgrades) : Upgrades[n] = u

\* connect: conn := NewConn(...), the callbacks are set
ConnectNewConn(c) ==
    /\ Running
    /\ cpc[c] = "dial"
    /\ nconns < MaxConns
    /\ nconns' = nconns + 1
    /\ cconn' = [cconn EXCEPT ![c] = nconns + 1]
    /\ cpc' = [cpc EXCEPT ![c] = "handshake"]
    /\ UNCHANGED <<writerVars, ccalls, cret, cwhen, tx, rpc, conn, spc, fault>>

\* Connect: net.DialTimeout
Dial(c, ok) ==
    LET k == conn[cconn[c]]
    IN  /\ InHandshake(c, "dial")
        /\ HandshakeTo(c, IF ok THEN [k EXCEPT !.sock = "open", !.hs = "magic"]
                          ELSE Failed(k))

\* Connect: c.Write(MagicV2); c.Close() when it fails
WriteMagic(c, ok) ==
    LET k == conn[cconn[c]]
    IN  /\ InHandshake(c, "magic")
        /\ HandshakeTo(c, IF ok THEN [k EXCEPT !.hs = "identify"]
                          ELSE Failed([k EXCEPT !.sock = "closed"]))

\* identify: Identify(ci) and SendCommand(cmd)
IdentifySend(c, ok) ==
    LET k == conn[cconn[c]]
    IN  /\ InHandshake(c, "identify")
        /\ HandshakeTo(c, IF ok THEN [k EXCEPT !.hs = "response"]
                          ELSE Failed(k))

\* identify: the first ReadUnpackedResponse.  A read error and an error
\* frame return ErrIdentify; data[0] of an empty payload panics; a payload
\* not starting with '{' returns (nil, nil); a payload that json.Unmarshal
\* rejects returns ErrIdentify; else the grants are taken from the payload
IdentifyRead(c, kind, g) ==
    LET k == conn[cconn[c]]
        r == [k EXCEPT !.reads = Append(@, kind)]
    IN  /\ InHandshake(c, "response")
        /\ kind # "json" => g = NoGrant
        /\ IF kind = "empty"
           THEN /\ fault' = "index out of range"
                /\ conn' = [conn EXCEPT ![cconn[c]] = r]
                /\ UNCHANGED <<writerVars, callerVars, tx, rpc, nconns, spc>>
           ELSE HandshakeTo(c,
                    CASE kind = "ioerror" -> Failed(k)
                      [] kind \in {"error", "badjson"} -> Failed(r)
                      [] kind = "plain" -> [r EXCEPT !.hs = "start"]
                      [] kind = "json" ->
                           [r EXCEPT !.granted = g,
                                     !.hs = NextUpgrade([r EXCEPT
                                                 !.granted = g], 0)])

\* an upgrade whose answer may be any frame
UpgradeReadAny(c, u, kind) ==
    LET k == conn[cconn[c]]
        r == [k EXCEPT !.reads = Append(@, kind)]
    IN  /\ InHandshake(c, u \o "-read")
        /\ HandshakeTo(c, IF kind = "ioerror" THEN Failed(k)
                          ELSE [r EXCEPT !.hs = NextUpgrade(k, Place(u))])

\* upgradeTLS / upgradeDeflate / upgradeSnappy: the new reader and writer are
\* installed; the TLS handshake can fail
Upgrade(c, u, ok) ==
    LET k == conn[cconn[c]]
    IN  /\ InHandshake(c, u)
        /\ ~ok => u = "tls"
        /\ HandshakeTo(c, IF ok THEN [k EXCEPT !.layers = Append(@, u),
                                               !.hs = u \o "-read"]
                          ELSE Failed(k))

\* the upgrade's ReadUnpackedResponse: anything but a response frame with
\* the payload "OK" is an error
UpgradeRead(c, u, kind) ==
    LET k == conn[cconn[c]]
        r == [k EXCEPT !.reads = Append(@, kind)]
    IN  /\ InHandshake(c, u \o "-read")
        /\ HandshakeTo(c, CASE kind = "ioerror" -> Failed(k)
                            [] kind = "OK" ->
                                 [r EXCEPT !.hs = NextUpgrade(k, Place(u))]
                            [] OTHER -> Failed(r))

\* Connect after identify: wg.Add(2), readLoopRunning = 1, go readLoop(),
\* go writeLoop(), return resp, nil
ConnectStart(c) ==
    LET k == conn[cconn[c]]
    IN  /\ InHandshake(c, "start")
        /\ HandshakeTo(c, [k EXCEPT !.hs = "returned", !.ret = "nil",
                                    !.wg = 2, !.readLoopRunning = 1,
                                    !.rl = "read", !.wl = "run"])

\* connect after conn.Connect(): on an error conn.Close() (which does
\* nothing when the dial failed), the state stored back to StateInit and the
\* error returned; else on to w.conn = conn
ConnectReturned(c) ==
    LET k == conn[cconn[c]]
    IN  /\ InHandshake(c, "returned")
        /\ IF k.ret = "error"
           THEN /\ conn' = [conn EXCEPT ![cconn[c]].sock =
                                IF @ = "none" THEN @ ELSE "closed"]
                /\ state' = StateInit
                /\ ReturnErr(c, "connect failed")
                /\ cconn' = [cconn EXCEPT ![c] = 0]
           ELSE /\ cpc' = [cpc EXCEPT ![c] = "setconn"]
                /\ UNCHANGED <<state, concurrentWriters, cret, cconn, conn>>
        /\ UNCHANGED <<stopFlag, exitChan, wconn, wg, transactions, closers,
                       ccalls, cwhen, tx, rpc, nconns, spc, fault>>

HandshakeStep(c) ==
    \/ \E ok \in BOOLEAN : Dial(c, ok)
    \/ \E ok \in BOOLEAN : WriteMagic(c, ok)
    \/ \E ok \in BOOLEAN : IdentifySend(c, ok)
    \/ \E kind \in {"ioerror", "error", "empty", "plain", "badjson", "json"},
          g \in Grants : IdentifyRead(c, kind, g)
    \/ \E u \in Range(Upgrades), ok \in BOOLEAN : Upgrade(c, u, ok)
    \/ \E u \in Range(Upgrades), kind \in {"ioerror", "OK", "other"} :
          UpgradeRead(c, u, kind)
    \/ ConnectStart(c)

HandshakeNext ==
    \E c \in Callers :
        \/ Enter(c)
        \/ ConnectStopped(c)
        \/ ConnectCAS(c)
        \/ ConnectNewConn(c)
        \/ HandshakeStep(c)
        \/ ConnectReturned(c)
        \/ ConnectSetConn(c)
        \/ ConnectGo(c)

HandshakeSpec == HandshakeInit /\ [][HandshakeNext]_vars

\* -------------------------------------------------- Message encode / decode
\* bytes of a message body
MaxBody == 2

MsgIdLength == 16

\* A signed 64-bit timestamp is held as its four 16-bit words, most
\* significant first, two's complement: <<65535, 65535, 65535, 65535>> is -1
\* and <<32768, 0, 0, 0>> the smallest value
Timestamps == {<<0, 0, 0, 0>>, <<0, 0, 0, 1>>, <<0, 1, 256, 255>>,
               <<32767, 65535, 65535, 65535>>, <<32768, 0, 0, 0>>,
               <<65535, 65535, 65535, 65535>>}
Attempts == {0, 1, 255, 256, 65535}
MessageIDs == {[n \in 1..MsgIdLength |-> 0], [n \in 1..MsgIdLength |-> 255],
               [n \in 1..MsgIdLength |-> n]}
BodyBytes == {0, 32, 255}
Bodies == UNION {[1..n -> BodyBytes] : n \in 0..MaxBody}

Messages == [Id : MessageIDs, Body : Bodies, Timestamp : Timestamps,
             Attempts : Attempts]

\* binary.Write(w, binary.BigEndian, v) of a 16-bit value, and its reading
PutUint16(v) == <<v \div 256, v % 256>>
Uint16(b, n) == b[n] * 256 + b[n + 1]

\* binary.Write(w, binary.BigEndian, &m.Timestamp), and its reading
PutInt64(ts) ==
    PutUint16(ts[1]) \o PutUint16(ts[2]) \o PutUint16(ts[3]) \o PutUint16(ts[4])
Int64(b) == <<Uint16(b, 1), Uint16(b, 3), Uint16(b, 5), Uint16(b, 7)>>

\* Message.Write: timestamp, attempts, id, body
MessageWrite(m) ==
    PutInt64(m.Timestamp) \o PutUint16(m.Attempts) \o m.Id \o m.Body

\* Message.EncodeBytes: the bytes Write puts in a buffer; writes to a
\* bytes.Buffer do not fail
EncodeBytes(m) == [bytes |-> MessageWrite(m), err |-> "nil"]

NoMessage == [Id |-> <<>>, Body |-> <<>>, Timestamp |-> <<>>, Attempts |-> 0]

\* a decoder that reads the id before the attempts
DecodeMessageIdFirst(b) ==
    IF Len(b) < 8 + 2 + MsgIdLength
    THEN [msg |-> NoMessage, err |-> "unexpected EOF"]
    ELSE [msg |-> [Timestamp |-> Int64(b),
                   Id |-> SubSeq(b, 9, 8 + MsgIdLength),
                   Attempts |-> Uint16(b, 9 + MsgIdLength),
                   Body |-> SubSeq(b, 8 + 2 + MsgIdLength + 1, Len(b))],
          err |-> "nil"]

\* DecodeMessage: binary.Read of the timestamp and of the attempts,
\* io.ReadFull of the id, ioutil.ReadAll of the rest; a buffer that ends
\* inside one of the first three returns the error and no message
DecodeMessage(b) ==
    IF Len(b) < 8 THEN [msg |-> NoMessage, err |-> "EOF"]
    ELSE IF Len(b) < 8 + 2 THEN [msg |-> NoMessage, err |-> "EOF"]
    ELSE IF Len(b) < 8 + 2 + MsgIdLength
         THEN [msg |-> NoMessage, err |-> "unexpected EOF"]
    ELSE [msg |-> [Timestamp |-> Int64(b),
                   Attempts |-> Uint16(b, 9),
                   Id |-> SubSeq(b, 11, 8 + 2 + MsgIdLength),
                   Body |-> SubSeq(b, 8 + 2 + MsgIdLength + 1, Len(b))],
          err |-> "nil"]

\* conn[TheConn] holds a message m, the bytes made of it and what DecodeMessage
\* made of the bytes (readLoop calls DecodeMessage on the data of a message
\* frame)
MessageInit ==
    /\ IdleWriter
    /\ \E m \in Messages :
          conn = [i \in ConnIds |->
                    IF i = TheConn
                    THEN [at |-> "message", m |-> m, data |-> <<>>,
                          encErr |-> "none",
                          decoded |-> [msg |-> NoMessage, err |-> "none"]]
                    ELSE NoConn]

Encode ==
    LET c == conn[TheConn]
    IN  /\ c.at = "message"
        /\ ConnTo([c EXCEPT !.at = "bytes",
                            !.data = EncodeBytes(c.m).bytes,
                            !.encErr = EncodeBytes(c.m).err])

Decode ==
    LET c == conn[TheConn]
    IN  /\ c.at = "bytes"
        /\ ConnTo([c EXCEPT !.at = "decoded",
                            !.decoded = DecodeMessage(c.data)])

MessageNext == Encode \/ Decode

MessageSpec == MessageInit /\ [][MessageNext]_vars

\* ------------------------------------------------- MultiPublish and Publish
\* bodies of a batch
MaxBodies == 3

\* a WriterTransaction with the number of bodies of its command: 0 for the
\* command of Publish, n for the command of MultiPublish of n bodies
NoBatchTx ==
    [f \in DOMAIN NoTx \cup {"bodies"} |->
        IF f = "bodies" THEN 0 ELSE NoTx[f]]

MultiInit ==
    /\ state = StateInit
    /\ stopFlag = 0
    /\ exitChan = FALSE
    /\ wconn = 0
    /\ wg = 0
    /\ concurrentWriters = 0
    /\ transactions = <<>>
    /\ closers = [waiting |-> 0, released |-> 0]
    /\ cpc = [c \in Callers |-> "idle"]
    /\ ccalls = [c \in Callers |-> 0]
    /\ cconn = [c \in Callers |-> 0]
    /\ cret = [c \in Callers |-> Pending]
    /\ cwhen = [c \in Callers |-> [after |-> FALSE, held |-> FALSE]]
    /\ tx = [t \in TxIds |-> NoBatchTx]
    /\ rpc = [r \in ConnIds |-> "none"]
    /\ conn = [i \in ConnIds |-> NoConn]
    /\ nconns = 0
    /\ spc = [s \in Stoppers |-> "idle"]
    /\ fault = "none"

\* MultiPublish / MultiPublishAsync with the encoding inside sendCommandAsync:
\* the call is counted in concurrentWriters before the batch is encoded
MultiPublishCounted(c, n, ok) ==
    /\ Running
    /\ cpc[c] = "idle"
    /\ ccalls[c] < MaxCalls
    /\ ccalls' = [ccalls EXCEPT ![c] = @ + 1]
    /\ cwhen' = [cwhen EXCEPT ![c] =
                    [after |-> \E s \in Stoppers : spc[s] = "returned",
                     held |-> FALSE]]
    /\ concurrentWriters' = concurrentWriters + 1
    /\ IF ok
       THEN /\ tx' = [tx EXCEPT ![TxId(c, ccalls[c] + 1)].bodies = n]
            /\ cret' = [cret EXCEPT ![c] = Pending]
            /\ cpc' = [cpc EXCEPT ![c] = IF state # StateConnected
                                         THEN "connect" ELSE "select"]
       ELSE /\ cret' = [cret EXCEPT ![c] = Ret(NoFrame, 0, "encode failed")]
            /\ UNCHANGED <<tx, cpc>>
    /\ UNCHANGED <<state, stopFlag, exitChan, wconn, wg, transactions, closers,
                   cconn, rpc, conn, nconns, spc, fault>>

\* MultiPublish / MultiPublishAsync of n bodies: cmd, err := MultiPublish(topic,
\* body); on an error return it; else sendCommand / sendCommandAsync of the
\* one command, up to the test of the state
MultiPublishCall(c, n, ok) ==
    /\ Running
    /\ cpc[c] = "idle"
    /\ ccalls[c] < MaxCalls
    /\ ccalls' = [ccalls EXCEPT ![c] = @ + 1]
    /\ cwhen' = [cwhen EXCEPT ![c] =
                    [after |-> \E s \in Stoppers : spc[s] = "returned",
                     held |-> FALSE]]
    /\ IF ok
       THEN /\ concurrentWriters' = concurrentWriters + 1
            /\ tx' = [tx EXCEPT ![TxId(c, ccalls[c] + 1)].bodies = n]
            /\ cret' = [cret EXCEPT ![c] = Pending]
            /\ cpc' = [cpc EXCEPT ![c] = IF state # StateConnected
                                         THEN "connect" ELSE "select"]
       ELSE /\ cret' = [cret EXCEPT ![c] = Ret(NoFrame, 0, "encode failed")]
            /\ UNCHANGED <<concurrentWriters, tx, cpc>>
    /\ UNCHANGED <<state, stopFlag, exitChan, wconn, wg, transactions, closers,
                   cconn, rpc, conn, nconns, spc, fault>>

MultiNext ==
    \/ \E c \in Callers, n \in 1..MaxBodies, ok \in BOOLEAN :
          MultiPublishCall(c, n, ok)
    \/ NotStoppedNext

MultiSpec == MultiInit /\ [][MultiNext]_vars

\* ------------------------------------------- EventRouter.HandleMessage
\* Message bodies are texts of at most MaxText characters out of Chars; a
\* path is the sequence of its elements below the root.
MaxText == 4

MaxShown == 2

Chars == {"h", " ", "/", "."}

Texts == UNION {[1..n -> Chars] : n \in 0..MaxText}

\* the absolute handlers directory main gives the EventRouter: /s/d
HandlersDir == << <<"s">>, <<"d">> >>

\* the file system: an executable h in the handlers directory, another
\* executable h in its parent directory
Files == { HandlersDir \o << <<"h">> >>, << <<"s">>, <<"h">> >> }

Dirs == { <<>>, << <<"s">> >>, HandlersDir }

\* strings.Split(s, sep) for a separator of one character
RECURSIVE Split(_, _)
Split(s, sep) ==
    IF \A k \in 1..Len(s) : s[k] # sep
    THEN <<s>>
    ELSE LET k == CHOOSE j \in 1..Len(s) :
                      s[j] = sep /\ \A i \in 1..(j - 1) : s[i] # sep
         IN  <<SubSeq(s, 1, k - 1)>> \o Split(SubSeq(s, k + 1, Len(s)), sep)

\* strings.Join(parts, sep)
RECURSIVE Join(_, _)
Join(parts, sep) ==
    IF parts = <<>> THEN <<>>
    ELSE IF Len(parts) = 1 THEN parts[1]
    ELSE parts[1] \o <<sep>> \o Join(Tail(parts), sep)

\* filepath.Clean of a rooted path given by its elements: empty elements and
\* "." are dropped, ".." removes the element before it and is dropped at the
\* root
RECURSIVE Clean(_, _)
Clean(done, elems) ==
    IF elems = <<>> THEN done
    ELSE LET e == Head(elems)
         IN  IF e = <<>> \/ e = <<".">>
             THEN Clean(done, Tail(elems))
             ELSE IF e = <<".", ".">>
             THEN Clean(IF done = <<>> THEN <<>>
                        ELSE SubSeq(done, 1, Len(done) - 1), Tail(elems))
             ELSE Clean(Append(done, e), Tail(elems))

\* filepath.Join(dir, name) for a clean absolute dir
FilepathJoin(dir, name) == Clean(dir, Split(name, "/"))

\* os.Stat(p): a file, a directory, ENOENT, or ENOTDIR when an element on the
\* way is a file
Stat(p) ==
    IF p \in Files THEN "file"
    ELSE IF p \in Dirs THEN "dir"
    ELSE IF \E k \in 1..(Len(p) - 1) : SubSeq(p, 1, k) \in Files
    THEN "notdir"
    ELSE "notexist"

\* no program started
NoRun == [started |-> FALSE, path |-> <<>>, args |-> <<>>, dir |-> <<>>]

\* the EventRouter main adds to the reader, before the first message
RouterInit ==
    /\ IdleWriter
    /\ \E total \in {0, MaxShown} :
          conn = [i \in ConnIds |->
                    IF i = TheConn
                    THEN [totalMessages |-> total, messagesShown |-> 0,
                          handlersDir |-> HandlersDir, Body |-> <<>>,
                          ran |-> NoRun, log |-> "none", result |-> "none"]
                    ELSE NoConn]

\* HandleMessage of a message with this body; ok: the handler, when it is
\* started, exits with status 0
HandleMessage(body, ok) ==
    LET th == conn[TheConn]
        msgParts == Split(body, " ")
        eventName == msgParts[1]
        handlerArguments == Join(Tail(msgParts), " ")
        handlerPath == FilepathJoin(th.handlersDir, eventName)
        shown == th.messagesShown + 1
        cmd == [started |-> Stat(handlerPath) = "file", path |-> handlerPath,
                args |-> <<handlerArguments>>, dir |-> th.handlersDir]
        seen == [th EXCEPT !.messagesShown = shown, !.Body = body]
    IN  /\ th.result # "exit"
        /\ th.messagesShown < MaxShown
        /\ IF Stat(handlerPath) = "notexist"
           THEN ConnTo([seen EXCEPT !.ran = NoRun, !.log = "ignored",
                                    !.result = "nil"])
           ELSE IF ~cmd.started \/ ~ok
           THEN ConnTo([seen EXCEPT !.ran = IF cmd.started THEN cmd ELSE NoRun,
                                    !.log = "failed", !.result = "nil"])
           ELSE ConnTo([seen EXCEPT
                          !.ran = cmd, !.log = "triggered",
                          !.result = IF th.totalMessages > 0
                                        /\ shown >= th.totalMessages
                                     THEN "exit" ELSE "nil"])

RouterNext == \E body \in Texts, ok \in BOOLEAN : HandleMessage(body, ok)

EventRouterSpec == RouterInit /\ [][RouterNext]_vars

\* ------------------------------------------------- Stop on a connected Writer
\* the caller of PublishAsync whose call connected the Writer
Connector == CHOOSE c \in Callers : ~Sync(c)

\* A connected publisher at rest: the PublishAsync call of Connector has
\* connected, its command was written and answered, the router is at its
\* select and the read loop of the connection is reading.
ConnectedInit ==
    LET t == TxId(Connector, 1)
    IN  /\ state = StateConnected
        /\ stopFlag = 0
        /\ exitChan = FALSE
        /\ wconn = 1
        /\ wg = 1
        /\ concurrentWriters = 0
        /\ transactions = <<>>
        /\ closers = [waiting |-> 0, released |-> 0]
        /\ cpc = [c \in Callers |-> "idle"]
        /\ ccalls = [c \in Callers |-> IF c = Connector THEN 1 ELSE 0]
        /\ cconn = [c \in Callers |-> 0]
        /\ cret = [c \in Callers |-> IF c = Connector
                                     THEN Ret(NoFrame, 0, "nil") ELSE Pending]
        /\ cwhen = [c \in Callers |-> [after |-> FALSE, held |-> FALSE]]
        /\ tx = [u \in TxIds |->
                   IF u = t
                   THEN [NoTx EXCEPT !.handed = TRUE, !.popped = 1,
                                     !.FrameType = FrameTypeResponse,
                                     !.Data = t, !.fconn = 1, !.frame = 1]
                   ELSE NoTx]
        /\ rpc = [r \in ConnIds |-> IF r = 1 THEN "select" ELSE "none"]
        /\ conn = [i \in ConnIds |->
                     IF i = 1 THEN [NewConn EXCEPT !.sent = <<t>>,
                                                   !.frames = 1]
                     ELSE NoConn]
        /\ nconns = 1
        /\ spc = [s \in Stoppers |-> "idle"]
        /\ fault = "none"

ConnectedSpec == ConnectedInit /\ [][Next]_vars

\* ================================================================ properties

\* C1 - FIFO matching: the k-th response or error frame of a connection
\* resolves the k-th transaction whose command the router sent on that
\* connection, whatever the frame types.
C1_FIFOMatching ==
    \A t \in TxIds :
        tx[t].frame > 0 =>
            /\ tx[t].frame <= Len(conn[tx[t].fconn].sent)
            /\ conn[tx[t].fconn].sent[tx[t].frame] = t

\* C2 - when a router exits with transactions pending, transactionCleanup
\* resolves every one of them with ErrNotConnected exactly once: cleanup
\* delivers no transaction twice, what it delivered carries ErrNotConnected,
\* and once the routers have exited the pending sequence is empty and every
\* transaction that was handed to a router has been resolved.
C2_CleanupResolvesOnce ==
    /\ \A t \in TxIds : tx[t].cleaned <= 1
    /\ \A t \in TxIds : tx[t].cleaned >= 1 => tx[t].Error = ErrNotConnected
    /\ ((\E r \in ConnIds : rpc[r] = "done")
            /\ (\A r \in ConnIds : rpc[r] \in {"none", "done"}))
          => /\ transactions = <<>>
             /\ \A t \in TxIds : tx[t].handed => Delivered(t) >= 1

\* C3 - no transaction is delivered on its completion channel more than
\* once, by popTransaction and transactionCleanup together.
C3_DeliveredAtMostOnce ==
    \A t \in TxIds : Delivered(t) <= 1

\* C4 - every transaction handed to the router is eventually resolved: when
\* the run is over (no caller, router, connection or Stop has a step left, and
\* nothing has panicked) every handed transaction was delivered.
C4_HandedIsResolved ==
    (Running /\ ~ENABLED Next) =>
        \A t \in TxIds : tx[t].handed => Delivered(t) >= 1

\* C5 - a publish call that begins after Stop (the call that ran the
\* shutdown) has returned hands no transaction to a router, does not wait for
\* a completion, and returns ErrStopped.
C5_StoppedAfterStop ==
    \A c \in Callers :
        cwhen[c].after =>
            /\ ~tx[Cur(c)].handed
            /\ cpc[c] # "recv"
            /\ cpc[c] = "idle" => cret[c].Error = ErrStopped

\* C6 - Stop is one-shot: the exit channel is never closed twice, at most one
\* Stop call goes on to the close step, no transaction is resolved twice, and
\* when the run is over the close callback of every connection that was
\* established has been invoked.
C6_StopOneShot ==
    /\ fault # "close of closed channel"
    /\ Cardinality({s \in Stoppers : spc[s] \notin {"idle", "noop"}}) <= 1
    /\ \A t \in TxIds : Delivered(t) <= 1
    /\ (Running /\ ~ENABLED Next) =>
          \A i \in ConnIds :
              conn[i].sock # "none" => conn[i].wfc \in {"cb", "done"}

\* C7 - as claimed: at the moment any Stop call returns, the routers and the
\* read loop, write loop and drain task of every connection have finished.
C7_StopWaitsAllTasks ==
    [][\A s \in Stoppers :
          (spc[s] \notin {"returned", "noop"}
              /\ spc'[s] \in {"returned", "noop"}) =>
              /\ \A r \in ConnIds : rpc[r] \in {"none", "done"}
              /\ \A i \in ConnIds :
                    /\ conn[i].rl \in {"none", "done"}
                    /\ conn[i].wl \in {"none", "done"}
                    /\ conn[i].cl \in {"none", "done"}]_vars

\* C7 - amended: the Stop call that took the stop flag returns from
\* w.wg.Wait() only when every router started so far has exited.
C7_StopWaitsRouter ==
    [][\A s \in Stoppers :
          (spc[s] = "wait" /\ spc'[s] = "returned") =>
              \A r \in ConnIds : rpc[r] \in {"none", "done"}]_vars

\* C7 - reached: Stop has returned after a router ran and exited
C7_StopReturnedAfterRouter ==
    /\ \E s \in Stoppers : spc[s] = "returned"
    /\ \E r \in ConnIds : rpc[r] = "done"
    /\ \A r \in ConnIds : rpc[r] \in {"none", "done"}

\* C8 - a Publish call that was blocked (at the enqueue or at the completion)
\* when Stop was called does not stay blocked: when the run is over it has
\* returned.
C8_StopUnblocksPublish ==
    (Running /\ ~ENABLED Next) =>
        \A c \in Callers : (Sync(c) /\ cwhen[c].held) => cpc[c] = "idle"

\* C9 - no publish call blocks forever when Stop is never called: when no
\* Stop was called and no caller, router, connection or closer has a step
\* left, every call has returned.
C9_NoCallBlocksForever ==
    (/\ Running
     /\ stopFlag = 0
     /\ ~ENABLED (\/ \E c \in Callers : CallerStep(c)
                  \/ \E r \in ConnIds : RouterStep(r)
                  \/ \E i \in ConnIds : ConnStep(i)
                  \/ CloserWake
                  \/ CloserStore))
        => \A c \in Callers : cpc[c] = "idle"

\* C10 - as claimed: the state becomes Connected only from Init when a
\* connect has succeeded, Disconnected only from Connected, and Init only from
\* Disconnected when the routers have exited.
C10_StateCycle ==
    [][state' # state =>
          \/ /\ state = StateInit /\ state' = StateConnected
             /\ nconns' = nconns + 1
          \/ /\ state = StateConnected /\ state' = StateDisconnected
          \/ /\ state = StateDisconnected /\ state' = StateInit
             /\ \A r \in ConnIds : rpc[r] \in {"none", "done"}]_vars

\* C10 - amended: the state changes only by the compare-and-swap Init ->
\* Connected at the start of connect (before the dial), by the
\* compare-and-swap Connected -> Disconnected of close, and by a store of
\* Init, made by a connect that failed or by the goroutine of close.
C10_StateSteps ==
    [][state' # state =>
          \/ /\ state = StateInit /\ state' = StateConnected
             /\ \E c \in Callers : cpc[c] = "cas" /\ cpc'[c] = "dial"
          \/ /\ state = StateConnected /\ state' = StateDisconnected
          \/ /\ state' = StateInit
             /\ \/ \E c \in Callers : cpc[c] = "dial" /\ cpc'[c] = "idle"
                \/ closers'.released < closers.released]_vars

\* C10 - reached: the state is back at Init after a connection was made,
\* closed, and its router exited
C10_BackAtInit ==
    /\ state = StateInit
    /\ nconns >= 1
    /\ closers = [waiting |-> 0, released |-> 0]
    /\ \E r \in ConnIds : rpc[r] = "done"
    /\ \E i \in ConnIds : conn[i].sock = "closed"

\* C11 - at most one connect attempt is in effect at a time on a publisher
\* that was not stopped: at most one caller is between the compare-and-swap
\* of connect and the start of the router; a caller dials only when its
\* compare-and-swap found StateInit, and a connect that finds another state
\* returns ErrNotConnected with no dial, no connection and no transaction
\* handed over.
C11_OneConnectAttempt ==
    /\ [](stopFlag = 0 =>
            Cardinality({c \in Callers :
                            cpc[c] \in {"dial", "setconn", "go"}}) <= 1)
    /\ [][\A c \in Callers :
            /\ (cpc'[c] = "dial" /\ cpc[c] # "dial") =>
                  (cpc[c] = "cas" /\ state = StateInit)
            /\ (cpc[c] = "cas" /\ cpc'[c] # "cas" /\ state # StateInit) =>
                  /\ cpc'[c] = "idle"
                  /\ cret'[c].Error = ErrNotConnected
                  /\ UNCHANGED <<state, nconns, conn, tx, transactions, rpc>>
         ]_vars

\* C11 - reached: on a publisher that was not stopped one caller is dialing
\* and another caller's connect has returned ErrNotConnected
C11_SecondConnectRefused ==
    /\ stopFlag = 0
    /\ \E c, d \in Callers :
          /\ c # d
          /\ cpc[d] = "dial"
          /\ cpc[c] = "idle" /\ ccalls[c] >= 1
          /\ cret[c].Error = ErrNotConnected
          /\ ~tx[Cur(c)].handed

\* C12 - lazy reconnect on a publisher that is not stopped: after a read
\* error was reported for a connection, that connection's close sequence
\* completes, its router exits and the state returns to Init; after a failed
\* write (state Disconnected) the state returns to Init with the connection
\* closed, its CloseCB delivered and its router gone; and a connect that
\* then succeeds installs a connection never used before and starts a new
\* router for it.
C12_LazyReconnect ==
    /\ \A i \in ConnIds :
          (conn[i].rl = "cbIOError") ~>
              (state = StateInit /\ conn[i].wfc = "done" /\ rpc[i] = "done")
    /\ (state = StateDisconnected) ~>
          (/\ state = StateInit /\ wconn # 0
           /\ conn[wconn].wfc = "done" /\ conn[wconn].sock = "closed"
           /\ rpc[wconn] = "done")
    /\ [][\A c \in Callers :
            (cpc[c] = "go" /\ cpc'[c] # "go") =>
                /\ wconn = cconn[c]
                /\ rpc[cconn[c]] = "none" /\ rpc'[cconn[c]] = "select"
                /\ conn[cconn[c]].sent = <<>> /\ conn[cconn[c]].frames = 0
                /\ conn[cconn[c]].sock = "open"
         ]_vars

\* C12 - reached: the first connection failed and was closed, the state came
\* back to Init, and a later publish call has its own connection and router
C12_Reconnected ==
    /\ stopFlag = 0
    /\ nconns = 2
    /\ conn[1].wfc = "done" /\ rpc[1] = "done"
    /\ wconn = 2 /\ rpc[2] = "select" /\ state = StateConnected

\* C13 - a transaction resolved by an error frame of the broker has a
\* non-nil Error, and a synchronous publish that returns the frame type
\* of an error frame returns a non-nil error
C13_ErrorFrameSetsError ==
    /\ \A t \in TxIds :
          (tx[t].popped >= 1 /\ tx[t].FrameType = FrameTypeError) =>
              tx[t].Error # "nil"
    /\ \A c \in Callers :
          (Sync(c) /\ cpc[c] = "idle" /\ cret[c].FrameType = FrameTypeError) =>
              cret[c].Error # "nil"

\* C14 - an error frame does not tear the connection down: the step in which
\* the router takes an error frame from the read loop of a connection leaves
\* the state, w.conn and the connection's socket as they were, starts no
\* close, removes only the oldest transaction and changes no other
\* transaction; and every command the router sends goes to w.conn
C14_ErrorFrameKeepsConn ==
    /\ [][\A i \in ConnIds :
            (conn[i].rl = "cbError" /\ conn'[i].rl = "read") =>
                /\ UNCHANGED <<state, wconn, closers, nconns, stopFlag>>
                /\ conn'[i].sock = conn[i].sock
                /\ conn'[i].stopper = conn[i].stopper
                /\ transactions # <<>>
                /\ transactions' = Tail(transactions)
                /\ tx'[Head(transactions)].FrameType = FrameTypeError
                /\ \A t \in TxIds \ {Head(transactions)} : tx'[t] = tx[t]
         ]_vars
    /\ [][\A i \in ConnIds :
            conn'[i].sent # conn[i].sent => (i = wconn /\ wconn' = wconn)
         ]_vars

\* C14 - reached: a transaction was resolved by an error frame of connection
\* 1, and a transaction handed in afterwards was written on connection 1,
\* still the only connection, with the state Connected and the socket open
C14_PublishAfterErrorFrame ==
    /\ state = StateConnected /\ wconn = 1 /\ nconns = 1
    /\ conn[1].sock = "open"
    /\ \E t, u \in TxIds :
          /\ tx[t].popped = 1 /\ tx[t].FrameType = FrameTypeError
          /\ tx[t].fconn = 1
          /\ conn[1].sent = <<t, u>> /\ conn[1].wire = <<u>>
          /\ transactions = <<u>>

\* the frames of kind k among the frames the read loop decoded
Decoded(k) ==
    Cardinality({n \in 1..Len(conn[TheConn].decoded) :
                    conn[TheConn].decoded[n] = k})

\* C15 - every heartbeat frame calls HeartbeatCB once and is answered by one
\* SendCommand(Nop()), sent before the next frame is read; ResponseCB, ErrorCB
\* and MessageCB are called once per response, error and message frame and
\* never for a heartbeat, and a heartbeat puts no message in flight
C15_HeartbeatAnsweredByNop ==
    LET c == conn[TheConn]
    IN  /\ c.cb["HeartbeatCB"] = Decoded("heartbeat")
        /\ c.nops = Decoded("heartbeat") - (IF c.rl = "nop" THEN 1 ELSE 0)
        /\ c.rl = "nop" => c.decoded[Len(c.decoded)] = "heartbeat"
        /\ c.cb["ResponseCB"] = Decoded("response")
        /\ c.cb["ErrorCB"] = Decoded("error")
        /\ c.cb["MessageCB"] = Decoded("message")
        /\ c.messagesInFlight <= Decoded("message")

\* C15 - reached: a heartbeat and then a response were decoded; the heartbeat
\* was answered by the one Nop sent so far and only the response reached
\* ResponseCB
C15_HeartbeatThenResponse ==
    LET c == conn[TheConn]
    IN  /\ c.decoded = <<"heartbeat", "response">>
        /\ c.nops = 1
        /\ c.cb["HeartbeatCB"] = 1
        /\ c.cb["ResponseCB"] = 1

\* C16 - a frame of an unknown type ends the read loop: once one was
\* decoded, it is the last frame the read loop decodes
C16_UnknownFrameEndsReadLoop ==
    LET c == conn[TheConn]
    IN  \A n \in 1..Len(c.decoded) :
            c.decoded[n] = "unknown" => n = Len(c.decoded)

\* C17 - however often c.close() is called, exitChan is closed once, one
\* cleanup and one waitForCleanup are started (all three with the first
\* call), CloseCB is called at most once, and it has been called once when
\* waitForCleanup is done and when the connection can take no further step
C17_CloseOnce ==
    LET c == conn[TheConn]
        n == IF c.closeCalls > 0 THEN 1 ELSE 0
    IN  /\ c.started = [exitChan |-> n, cleanup |-> n, waitForCleanup |-> n]
        /\ c.stopper <=> c.closeCalls > 0
        /\ c.cb["CloseCB"] = (IF c.wfc = "done" THEN 1 ELSE 0)
        /\ (c.closeCalls > 0 /\ ~ENABLED ConnNext) => c.cb["CloseCB"] = 1

\* C17 - reached: close was requested three times (by the write loop after a
\* failed send, by the write loop after the last acknowledgement of a
\* stopped connection, by the read loop at its exit) and CloseCB was called
\* once
C17_ThreeCloseCalls ==
    LET c == conn[TheConn]
    IN  /\ c.closeCalls = 3
        /\ c.decoded = <<"message">>
        /\ c.cmds = 1 /\ c.cb["MessageProcessedCB"] = 1 /\ c.rl = "done"
        /\ c.cb["CloseCB"] = 1

\* the read loop, the write loop and the drain task have all exited
TasksDone(c) == c.rl = "done" /\ c.wl = "done" /\ c.cl = "done"

\* C18 - as claimed: the socket is closed, and CloseCB called, only when the
\* read loop, the write loop and the drain task have all exited
C18_SocketClosedAfterTasks ==
    LET c == conn[TheConn]
    IN  (c.sock = "closed" \/ c.cb["CloseCB"] > 0) => TasksDone(c)

\* C18 - CloseCB is called, and waitForCleanup closes the socket, only when
\* the read loop, the write loop and the drain task have all exited; a step
\* that closes the socket while one of them runs is the owner's call of
\* Conn.Close, which changes nothing else
C18_CloseCBAfterTasks ==
    /\ [](LET c == conn[TheConn]
          IN  /\ c.cb["CloseCB"] > 0 => c.wfc = "done"
              /\ c.wfc = "done" =>
                    (TasksDone(c) /\ c.wg = 0 /\ c.sock = "closed"))
    /\ [][LET c == conn[TheConn]
              d == conn'[TheConn]
          IN  /\ (c.wfc # "done" /\ d.wfc = "done") =>
                    (TasksDone(c) /\ d.cb["CloseCB"] = c.cb["CloseCB"] + 1)
              /\ (c.sock = "open" /\ d.sock = "closed" /\ ~TasksDone(c)) =>
                    d = [c EXCEPT !.sock = "closed"]
         ]_vars

\* C18 - reached: the three tasks have exited after decoding a frame and
\* acknowledging a message, waitForCleanup has closed the socket and called
\* CloseCB
C18_CleanClose ==
    LET c == conn[TheConn]
    IN  /\ c.wfc = "done" /\ c.cb["CloseCB"] = 1 /\ c.sock = "closed"
        /\ c.cb["MessageProcessedCB"] = 1
        /\ TasksDone(c)

\* C19 - the drain task has exited only with no message in flight and the
\* read loop stopped, and when the socket was closed by waitForCleanup and
\* CloseCB called, no message is in flight
C19_DrainedAtClose ==
    LET c == conn[TheConn]
    IN  /\ c.cl = "done" =>
              (c.messagesInFlight = 0 /\ c.readLoopRunning = 0)
        /\ c.cb["CloseCB"] > 0 => c.messagesInFlight = 0

\* C20 - when the read loop has ended and every message was acknowledged,
\* the close was started, and once the connection can take no further step
\* CloseCB was called
C20_ReadLoopExitCloses ==
    LET c == conn[TheConn]
    IN  (c.rl = "done" /\ c.messagesInFlight = 0 /\ ~ENABLED ConnNext) =>
            (c.stopper /\ c.cb["CloseCB"] = 1)

\* C21 - command writes never interleave: at most one sender is between
\* c.Lock() and c.Unlock(), it is the holder of the mutex, and the bytes
\* written to the socket form runs, one per command, each holding the bytes
\* of that command in order from the first
C21_WritesDoNotInterleave ==
    LET c == conn[TheConn]
        inside == {t \in Senders : c.at[t] \in {"buffer", "write", "flush",
                                                "unlock"}}
    IN  /\ Cardinality(inside) <= 1
        /\ \A t \in inside : c.mutex = t
        /\ \A j \in 1..Len(c.out) :
              IF c.out[j].byte = 1 THEN TRUE
              ELSE /\ j > 1
                   /\ c.out[j - 1].by = c.out[j].by
                   /\ c.out[j - 1].cmd = c.out[j].cmd
                   /\ c.out[j - 1].byte = c.out[j].byte - 1

\* C21 - reached: two senders have each written a whole command while the
\* third is waiting for the mutex
C21_TwoCommandsWritten ==
    LET c == conn[TheConn]
    IN  /\ Len(c.out) >= 2 * CmdLen
        /\ c.out[1].by # c.out[Len(c.out)].by
        /\ \E t \in Senders : c.at[t] = "lock" /\ c.mutex \notin {t, "none"}

\* the frames read after the answer to IDENTIFY: the answers to the upgrades
UpgradeAnswers(k) == IF k.reads = <<>> THEN <<>> ELSE Tail(k.reads)

\* C22 - on every connection the upgrades are applied in the order TLS,
\* deflate, snappy, each one granted by the broker and none that was granted
\* left out on the way; each upgrade is followed by one read before the next
\* is applied; an answer that is not the response "OK" is the last frame read
\* and makes Connect return an error; the loops are started only when every
\* granted upgrade was applied and answered by "OK"
C22_UpgradesInOrder ==
    \A i \in ConnIds :
        LET k == conn[i]
            a == UpgradeAnswers(k)
        IN  /\ \A n \in 1..Len(k.layers) :
                  /\ k.granted[k.layers[n]]
                  /\ \A u \in Range(Upgrades) :
                        (k.granted[u] /\ Place(u) < Place(k.layers[n])) <=>
                            (\E m \in 1..(n - 1) : k.layers[m] = u)
            /\ Len(a) <= Len(k.layers)
            /\ Len(k.layers) <= Len(a) + 1
            /\ Len(k.layers) = Len(a) + 1 =>
                  (k.hs = k.layers[Len(k.layers)] \o "-read" \/ k.ret = "error")
            /\ \A n \in 1..Len(a) :
                  a[n] # "OK" =>
                      (n = Len(a) /\ k.ret = "error" /\ k.rl = "none")
            /\ k.rl # "none" =>
                  /\ k.ret = "nil"
                  /\ \A u \in Range(Upgrades) :
                        k.granted[u] => u \in Range(k.layers)
                  /\ Len(a) = Len(k.layers)

\* C22 - reached: the broker granted TLS and deflate, both were applied in
\* that order, each answered by "OK", and the loops run
C22_TlsThenDeflate ==
    \E i \in ConnIds :
        /\ conn[i].layers = <<"tls", "deflate">>
        /\ conn[i].reads = <<"json", "OK", "OK">>
        /\ conn[i].rl = "read"

\* C23 - the loops and the router of a connection are started only after its
\* Connect returned nil; when the broker's answer to IDENTIFY is neither a
\* capabilities object nor a plain acknowledgement Connect has returned an
\* error; once connect has returned that error to its caller the connection
\* has no loop, no router and no open socket; and with no connect in progress
\* and no router started the state is Init
C23_LoopsAfterHandshake ==
    /\ \A i \in ConnIds :
          (conn[i].rl # "none" \/ conn[i].wl # "none" \/ rpc[i] # "none") =>
              conn[i].ret = "nil"
    /\ \A i \in ConnIds :
          (conn[i].reads # <<>> /\ conn[i].reads[1] \notin {"json", "plain"})
              => conn[i].ret = "error"
    /\ \A i \in ConnIds :
          (conn[i].ret = "error" /\ \A c \in Callers : cconn[c] # i) =>
              /\ conn[i].sock \in {"none", "closed"}
              /\ conn[i].rl = "none" /\ conn[i].wl = "none"
              /\ rpc[i] = "none"
    /\ ((\A c \in Callers : cpc[c] \notin {"dial", "handshake", "setconn", "go"})
            /\ \A i \in ConnIds : rpc[i] = "none")
          => state = StateInit

\* C24 - EncodeBytes succeeds and gives the timestamp in 8 bytes, the attempts
\* in 2, the id in 16 and then the body, most significant byte first; and
\* DecodeMessage of these bytes succeeds and gives a message with the same
\* id, body, timestamp and attempts
C24_MessageRoundTrip ==
    LET c == conn[TheConn]
    IN  /\ c.at \in {"bytes", "decoded"} =>
              /\ c.encErr = "nil"
              /\ Len(c.data) = 8 + 2 + 16 + Len(c.m.Body)
              /\ \A n \in 1..4 :
                    /\ c.data[2 * n - 1] = c.m.Timestamp[n] \div 256
                    /\ c.data[2 * n] = c.m.Timestamp[n] % 256
              /\ c.data[9] = c.m.Attempts \div 256
              /\ c.data[10] = c.m.Attempts % 256
              /\ SubSeq(c.data, 11, 26) = c.m.Id
              /\ SubSeq(c.data, 27, Len(c.data)) = c.m.Body
        /\ c.at = "decoded" =>
              /\ c.decoded.err = "nil"
              /\ c.decoded.msg.Id = c.m.Id
              /\ c.decoded.msg.Body = c.m.Body
              /\ c.decoded.msg.Timestamp = c.m.Timestamp
              /\ c.decoded.msg.Attempts = c.m.Attempts

\* C24 - reached: a message with the empty body, the timestamp -1 and 65535
\* attempts was encoded and decoded
C24_EmptyBodyDecoded ==
    LET c == conn[TheConn]
    IN  /\ c.at = "decoded"
        /\ c.m.Body = <<>>
        /\ c.m.Timestamp = <<65535, 65535, 65535, 65535>>
        /\ c.m.Attempts = 65535
        /\ c.m.Id[16] = 16

\* C25 - once the router has taken the response frame that answers the
\* command of a Publish call (the frame's payload is the broker's answer to
\* that command), that call has returned the frame type response, that
\* payload and a nil error
C25_PublishReturnsResponse ==
    \A c \in Callers :
        (/\ Sync(c) /\ ccalls[c] >= 1
         /\ \E u \in TxIds : /\ tx[u].popped >= 1
                             /\ tx[u].FrameType = FrameTypeResponse
                             /\ tx[u].Data = Cur(c))
        => /\ cpc[c] = "idle"
           /\ cret[c] = Ret(FrameTypeResponse, Cur(c), "nil")

\* the calls of Conn.SendCommand made with the command of transaction t
SentTimes(t) ==
    Cardinality({p \in UNION {{<<i, k>> : k \in 1..Len(conn[i].sent)} :
                              i \in ConnIds} :
                    conn[p[1]].sent[p[2]] = t})

\* the transactions popTransaction resolved with a frame of connection i
PoppedOn(i) == {t \in TxIds : tx[t].popped >= 1 /\ tx[t].fconn = i}

\* C26: a MultiPublish of n >= 1 bodies makes one transaction: it stands at
\* most once in the pending sequence, its command is given to SendCommand
\* at most once, and exactly once when the router has taken it or a frame has
\* resolved it, and at most one frame resolves it; a connection hands the
\* router no more frames than commands were sent on it, whatever their number
\* of bodies, and each frame resolves at most one transaction.
C26_BatchIsOneTransaction ==
    /\ \A t \in TxIds :
          tx[t].bodies >= 1 =>
              /\ SentTimes(t) <= 1
              /\ (tx[t].popped >= 1 \/ \E k \in 1..Len(transactions) :
                                          transactions[k] = t)
                     => SentTimes(t) = 1
              /\ Cardinality({k \in 1..Len(transactions) :
                                 transactions[k] = t}) <= 1
              /\ tx[t].popped <= 1
    /\ \A i \in ConnIds : /\ conn[i].frames <= Len(conn[i].sent)
                          /\ Cardinality(PoppedOn(i)) <= conn[i].frames

\* C26 witness: a batch of three bodies was sent as one command and resolved
\* by the one response frame its connection handed over.
C26_BatchOfThreeResolved ==
    \E t \in TxIds :
        /\ tx[t].bodies = 3
        /\ tx[t].popped = 1
        /\ tx[t].FrameType = FrameTypeResponse
        /\ SentTimes(t) = 1
        /\ conn[tx[t].fconn].frames = 1

\* C27: the step in which a MultiPublish call returns the encoding error
\* changes nothing of the publisher: no connect attempt (state, connections),
\* no transaction made or enqueued, nothing written, and the state, the
\* pending sequence and concurrentWriters are as before; the caller is back
\* at once.
C27_EncodeErrorFirst ==
    [][\A c \in Callers :
          (ccalls'[c] = ccalls[c] + 1 /\ cret'[c].Error = "encode failed")
          => /\ cpc'[c] = "idle"
             /\ cret'[c] = Ret(NoFrame, 0, "encode failed")
             /\ UNCHANGED <<state, stopFlag, exitChan, wconn, wg,
                            concurrentWriters, transactions, closers, cconn,
                            tx, rpc, conn, nconns>>]_vars

\* C27 witness: a call returned the encoding error while the publisher was
\* connected with another caller's transaction pending.
C27_EncodeErrorWhileConnected ==
    \E c \in Callers :
        /\ cret[c] = Ret(NoFrame, 0, "encode failed")
        /\ cpc[c] = "idle"
        /\ tx[Cur(c)] = NoBatchTx
        /\ state = StateConnected
        /\ transactions # <<>>

\* the text of a body before its first space, and the text after it
BeforeSpace(body) ==
    IF \E k \in 1..Len(body) : body[k] = " "
    THEN SubSeq(body, 1, (CHOOSE k \in 1..Len(body) :
                             body[k] = " " /\ \A j \in 1..(k - 1) :
                                                 body[j] # " ") - 1)
    ELSE body

AfterSpace(body) == SubSeq(body, Len(BeforeSpace(body)) + 2, Len(body))

\* C28: after HandleMessage of a body, a handler was started only as a file
\* in the handlers directory, with the text after the first space as its one
\* argument; when the text before the first space is the name of a file in
\* the handlers directory, that file is the handler that was started; and
\* when nothing was started HandleMessage returned nil.
C28_Dispatch ==
    LET th == conn[TheConn]
        name == BeforeSpace(th.Body)
    IN  th.result # "none" =>
            /\ th.ran.started =>
                  /\ \E x \in Texts : th.ran.path = Append(th.handlersDir, x)
                  /\ th.ran.path \in Files
                  /\ th.ran.args = <<AfterSpace(th.Body)>>
            /\ Append(th.handlersDir, name) \in Files =>
                  /\ th.ran.started
                  /\ th.ran.path = Append(th.handlersDir, name)
            /\ ~th.ran.started => th.result = "nil" /\ th.ran = NoRun

\* C29: the program HandleMessage starts is a file directly inside the
\* handlers directory.
C29_HandlerInsideDir ==
    LET th == conn[TheConn]
        n == Len(th.handlersDir)
    IN  th.ran.started =>
            /\ Len(th.ran.path) = n + 1
            /\ SubSeq(th.ran.path, 1, n) = th.handlersDir

C31_InFlightAccounting ==
    [][LET c == conn[TheConn]
           n == conn'[TheConn]
       IN  /\ n.cb["MessageCB"] # c.cb["MessageCB"] =>
                 /\ n.cb["MessageCB"] = c.cb["MessageCB"] + 1
                 /\ n.messagesInFlight = c.messagesInFlight + 1
                 /\ n.rdyCount = c.rdyCount - 1
           /\ n.cb["MessageCB"] = c.cb["MessageCB"] =>
                 /\ n.rdyCount = c.rdyCount
                 /\ n.messagesInFlight <= c.messagesInFlight
           /\ n.acked # c.acked =>
                 /\ n.acked = c.acked + 1
                 /\ n.messagesInFlight = c.messagesInFlight - 1
                 /\ c.wl = "select" \/ c.cl = "select"
           /\ n.messagesInFlight < c.messagesInFlight => n.acked = c.acked + 1
           /\ n.messagesInFlight = n.cb["MessageCB"] - n.acked
           /\ n.messagesInFlight >= 0]_vars

\* C31 witness: two messages were delivered, one acknowledgment was received
\* by the write loop whose FIN could not be sent, and cleanup received the
\* other: nothing is in flight.
C31_TwoDeliveredTwoAcked ==
    LET c == conn[TheConn]
    IN  /\ c.cb["MessageCB"] = 2
        /\ c.acked = 2
        /\ c.cb["MessageProcessedCB"] = 0
        /\ c.cl = "done"
        /\ c.messagesInFlight = 0
        /\ c.rdyCount = -2

\* C32: at most one router goroutine of the publisher exists at any time.
C32_OneRouter ==
    Cardinality({r \in ConnIds : rpc[r] \notin {"none", "done"}}) <= 1

\* the publish calls inside sendCommandAsync
Inside(c) == cpc[c] \notin {"idle", "recv"}

\* C33: concurrentWriters is the number of calls inside sendCommandAsync,
\* and while a router is in the spin of transactionCleanup (the pending
\* sequence cleared, the counter not yet seen at zero) a sender parked on the
\* enqueue is received only by that spin, which resolves it with
\* ErrNotConnected, or returns ErrStopped: no transaction is appended to the
\* pending sequence.
C33_CleanupFreesSenders ==
    /\ concurrentWriters = Cardinality({c \in Callers : Inside(c)})
    /\ (\E r \in ConnIds : rpc[r] = "spin") => transactions = <<>>

\* C34: Writer.close never runs w.conn.Close() on a nil w.conn: no step of
\* close ends in the nil-pointer panic.
C34_CloseHasConn == fault # "nil conn"

\* C35: popTransaction never runs on an empty pending sequence, the broker
\* sending one response or error frame for each command it received: no step
\* of the router ends in the index-out-of-range panic of w.transactions[0].
C35_PopFindsTransaction == fault # "index out of range"

\* C36: once the Stop call that ran the shutdown has returned, no router is
\* running and none is started; and when the run is over after such a Stop,
\* the socket of every connection that was established is closed.
C36_NoLeakAfterStop ==
    (\E s \in Stoppers : spc[s] = "returned") =>
        /\ \A r \in ConnIds : rpc[r] \in {"none", "done"}
        /\ (Running /\ ~ENABLED Next) =>
              \A i \in ConnIds : conn[i].sock \in {"none", "closed"}

\* C37: after Stop on the connected publisher, with no further publish call,
\* when no Stop call, router, connection or closer has a step left, the read
\* loop, the write loop and the drain task of its
\* connection have ended and waitForCleanup has returned from CloseCB.
C37_ConnTasksEnd ==
    (/\ Running
     /\ ~ENABLED (\/ \E s \in Stoppers : StopStep(s)
                  \/ \E r \in ConnIds : RouterStep(r)
                  \/ \E i \in ConnIds : ConnStep(i)
                  \/ CloserWake
                  \/ CloserStore)
     /\ \E s \in Stoppers : spc[s] = "returned"
     /\ \A c \in Callers : c # Connector => ccalls[c] = 0
     /\ nconns = 1) =>
        /\ conn[1].rl = "done"
        /\ conn[1].wl = "done"
        /\ conn[1].cl = "done"
        /\ conn[1].wfc = "done"

\* C38: with totalMessages N > 0 the process exits in the HandleMessage of
\* the N-th message, whatever became of the handlers, and not before; with
\* N = 0 it never exits for the count.
C38_ExitAtLimit ==
    LET th == conn[TheConn]
    IN  /\ th.result = "exit" =>
              th.totalMessages > 0 /\ th.messagesShown = th.totalMessages
        /\ (th.totalMessages > 0 /\ th.messagesShown = th.totalMessages) =>
              th.result = "exit"

====
